---- MODULE Spec2Model ----
(***************************************************************************)
(* s3-explorer: the hierarchical listing and bulk-transfer engine.        *)
(*                                                                         *)
(* Object keys, file names and error texts are sequences of one-character *)
(* strings, so that the string operations of the code (Sprintf, Ext,      *)
(* TrimPrefix, Contains, ...) are computed and not assumed.                *)
(*                                                                         *)
(* Specifications:                                                         *)
(*   SpecResolve  findAvailableObjectKey / findAvailableFolderName over    *)
(*                S3Client.ObjectExists, one HEAD or LIST per step         *)
(*   SpecList     S3Client.ListObjects called page after page              *)
(*   SpecFetch    ListObjects with any marker, and loadObjects             *)
(*   SpecBatch    one bulk upload, download, delete or paste: its scan,    *)
(*                its worker pools and its completion report               *)
(*   SpecPool     one deletion of a file and a folder of nine objects      *)
(*   SpecFormat   FormatFileNameForDisplay of short names                  *)
(*   SpecView     the ObjectsView: navigation, paging and its loadObjects  *)
(*                goroutines                                               *)
(*   SpecSameName an upload of two paths with the same base name           *)
(*   SpecSelect   a deletion while the selection is changed                *)
(*   SpecNavigate a paste while the view navigates                         *)
(***************************************************************************)
EXTENDS Integers, Sequences, FiniteSets, TLC

VARIABLES
    store,          \* the bucket: key -> size of the object stored under it
    currentPrefix,  \* ov.currentPrefix
    resolver,       \* the running findAvailableObjectKey / findAvailableFolderName
    pageSize,       \* the page size handed to ListObjects
    pager,          \* a caller of ListObjects following the markers it is given
    batch,          \* the goroutine that runs one bulk operation, with what its workers share
    jobs,           \* the items handed to the workers of the batch, each with its progress
    localFiles,     \* the download directory: path -> bytes written to the file
    view,           \* the paging fields of the ObjectsView, with its loadObjects goroutines
    label           \* a call of FormatFileNameForDisplay: its arguments and what it returned

vars == <<store, currentPrefix, resolver, pageSize, pager, batch, jobs, localFiles,
          view, label>>

(***************************************************************************)
(* Bounds of the model.                                                    *)
(***************************************************************************)
\* how many HEAD calls of one name resolution the store may answer with a fault
MaxHeadFaults == 1

(***************************************************************************)
(* Strings: package strings, fmt and path/filepath as the code uses them.  *)
(***************************************************************************)
Min(a, b) == IF a < b THEN a ELSE b

Max(a, b) == IF a > b THEN a ELSE b

\* the byte value of a character (ordinal comparison of Go strings)
CharCode(c) ==
    CASE c = "(" -> 40 [] c = ")" -> 41 [] c = "." -> 46 [] c = "/" -> 47
      [] c = "0" -> 48 [] c = "1" -> 49 [] c = "2" -> 50 [] c = "3" -> 51
      [] c = "4" -> 52 [] c = "5" -> 53 [] c = "6" -> 54 [] c = "7" -> 55
      [] c = "8" -> 56 [] c = "9" -> 57 [] c = "B" -> 66 [] c = "_" -> 95
      [] c = "a" -> 97 [] c = "b" -> 98 [] c = "c" -> 99 [] c = "d" -> 100
      [] c = "e" -> 101 [] c = "f" -> 102 [] c = "g" -> 103 [] c = "p" -> 112
      [] c = "s" -> 115 [] c = "t" -> 116 [] c = "x" -> 120 [] c = "y" -> 121
      [] OTHER -> 120

Digits == <<"0", "1", "2", "3", "4", "5", "6", "7", "8", "9">>

\* strings.HasPrefix
HasPrefix(s, p) == Len(s) >= Len(p) /\ SubSeq(s, 1, Len(p)) = p

\* strings.HasSuffix
HasSuffix(s, p) == Len(s) >= Len(p) /\ SubSeq(s, Len(s) - Len(p) + 1, Len(s)) = p

\* strings.TrimPrefix
TrimPrefix(s, p) == IF HasPrefix(s, p) THEN SubSeq(s, Len(p) + 1, Len(s)) ELSE s

\* strings.TrimSuffix
TrimSuffix(s, p) == IF HasSuffix(s, p) THEN SubSeq(s, 1, Len(s) - Len(p)) ELSE s

\* strings.Contains
Contains(s, sub) ==
    \E i \in 1..(Len(s) - Len(sub) + 1) : SubSeq(s, i, i + Len(sub) - 1) = sub

\* a < b on Go strings: bytewise lexicographic order
StrLess(a, b) ==
    \E i \in 1..(Min(Len(a), Len(b)) + 1) :
        /\ \A j \in 1..(i - 1) : a[j] = b[j]
        /\ IF i > Len(a) THEN i <= Len(b)
           ELSE i <= Len(b) /\ CharCode(a[i]) < CharCode(b[i])

\* fmt's %d of a non-negative integer
RECURSIVE Itoa(_)
Itoa(n) == IF n < 10 THEN <<Digits[n + 1]>> ELSE Itoa(n \div 10) \o <<Digits[(n % 10) + 1]>>

\* the suffix beginning at the final dot of the whole path
ExtOfWholePath(path) ==
    LET dots == {i \in 1..Len(path) : path[i] = "."}
    IN  IF dots = {} THEN <<>>
        ELSE LET i == CHOOSE d \in dots : \A e \in dots : e <= d
             IN  SubSeq(path, i, Len(path))

\* filepath.Ext: the suffix beginning at the final dot of the final element
\* of the path; empty if there is no dot in it.
Ext(path) ==
    LET dots == {i \in 1..Len(path) :
                    /\ path[i] = "."
                    /\ \A j \in i..Len(path) : path[j] # "/"}
    IN  IF dots = {} THEN <<>>
        ELSE LET i == CHOOSE d \in dots : \A e \in dots : e <= d
             IN  SubSeq(path, i, Len(path))

\* fmt.Sprintf("%s(%d)%s", base, i, ext)
NumberedName(base, i, ext) == base \o <<"(">> \o Itoa(i) \o <<")">> \o ext

(***************************************************************************)
(* The object store as the client sees it: a function from the keys that   *)
(* exist to the size of their object.                                      *)
(***************************************************************************)
EmptyStore == [k \in {} |-> 0]

Keys(st) == DOMAIN st

Put(st, key, size) == [k \in (DOMAIN st) \cup {key} |-> IF k = key THEN size ELSE st[k]]

Remove(st, key) == [k \in (DOMAIN st) \ {key} |-> st[k]]

StoreOf(keys, size) == [k \in keys |-> size]

(***************************************************************************)
(* S3Client.ObjectExists over the outcome of the HEAD call.                *)
(*                                                                         *)
(* A HEAD outcome is [ok, noSuchKey, status, text]: ok when the call        *)
(* returned no error, noSuchKey when the error is the SDK's typed          *)
(* NoSuchKey, status the HTTP status of the response, and text the error's *)
(* message, which is all ObjectExists looks at: it searches it for         *)
(* substrings.  The message of an SDK error names the HTTP status, the     *)
(* request id the server chose and the API error code.                     *)
(***************************************************************************)
HeadOK == [ok |-> TRUE, noSuchKey |-> FALSE, status |-> 200, text |-> <<>>]

\* "StatusCode: <status>, RequestID: <reqid>, api error <code>"
ErrText(status, reqid, code) == Itoa(status) \o <<"_">> \o reqid \o <<"_">> \o code

HeadErr(status, reqid, code) ==
    [ok |-> FALSE, noSuchKey |-> FALSE, status |-> status,
     text |-> ErrText(status, reqid, code)]

HeadNoSuchKey ==
    [ok |-> FALSE, noSuchKey |-> TRUE, status |-> 404, text |-> <<"N", "S", "K">>]

\* request ids a server may choose (hexadecimal strings)
RequestIDs == {<<"7", "a">>, <<"b", "4", "0", "0", "9">>, <<"1", "4", "0", "4">>}

CodeNotFound == <<"NotFound">>

CodeBadRequest == <<"BadRequest">>

CodeForbidden == <<"Forbidden">>

CodeInternal == <<"InternalError">>

\* the answers of a store that works: 200 for a key that exists, 404 otherwise
HeadAnswers(st, key) ==
    IF key \in Keys(st) THEN {HeadOK}
    ELSE {HeadNoSuchKey} \cup {HeadErr(404, r, CodeNotFound) : r \in {<<"7", "a">>}}

\* the answers of a store that rejects or fails the request
HeadFaults ==
    {HeadErr(400, r, CodeBadRequest) : r \in {<<"7", "a">>}}
      \cup {HeadErr(403, r, CodeForbidden) : r \in RequestIDs}
      \cup {HeadErr(500, r, CodeInternal) : r \in RequestIDs}

\* the result of ObjectExists: [exists, err]
ObjectExists(key, head) ==
    IF key = <<>> THEN [exists |-> FALSE, err |-> FALSE]
    ELSE IF head.ok THEN [exists |-> TRUE, err |-> FALSE]
    ELSE IF head.noSuchKey THEN [exists |-> FALSE, err |-> FALSE]
    ELSE IF Contains(head.text, <<"4", "0", "4">>) \/ Contains(head.text, CodeNotFound)
         THEN [exists |-> FALSE, err |-> FALSE]
    ELSE IF Contains(head.text, <<"4", "0", "0">>) \/ Contains(head.text, CodeBadRequest)
         THEN [exists |-> FALSE, err |-> FALSE]
    ELSE [exists |-> FALSE, err |-> TRUE]

(***************************************************************************)
(* The store's ListObjectsV2, as the SDK's paginator hands it to the code: *)
(* the keys under the prefix in ascending order, the keys that have a      *)
(* delimiter after the prefix rolled up into their common prefix, at most  *)
(* ListMaxKeys entries (keys and common prefixes together) per page.       *)
(***************************************************************************)
\* entries per page of the store's own listing (the server's MaxKeys)
ListMaxKeys == 2

\* the index of the first "/" of s, 0 if there is none
IndexSlash(s) ==
    LET at == {i \in 1..Len(s) : s[i] = "/"}
    IN  IF at = {} THEN 0 ELSE CHOOSE i \in at : \A j \in at : i <= j

\* what the store lists for one key under prefix with delimiter "/"
RollUp(key, prefix) ==
    LET rest == SubSeq(key, Len(prefix) + 1, Len(key))
        cut  == IndexSlash(rest)
    IN  IF cut = 0 THEN [common |-> FALSE, key |-> key]
        ELSE [common |-> TRUE, key |-> prefix \o SubSeq(rest, 1, cut)]

\* the ascending sequence of the strings of set S
RECURSIVE SortedKeys(_)
SortedKeys(S) ==
    IF S = {} THEN <<>>
    ELSE LET m == CHOOSE x \in S : \A y \in S \ {x} : StrLess(x, y)
         IN  <<m>> \o SortedKeys(S \ {m})

\* the listed entries of a prefix, in the store's order
ListedEntries(st, prefix, delimited) ==
    LET under  == {k \in Keys(st) : HasPrefix(k, prefix)}
        rolled == IF delimited THEN {RollUp(k, prefix) : k \in under}
                  ELSE {[common |-> FALSE, key |-> k] : k \in under}
        order  == SortedKeys({e.key : e \in rolled})
    IN  [i \in 1..Len(order) |-> CHOOSE e \in rolled : e.key = order[i]]

\* the pages of the store's listing: each [CommonPrefixes, Contents]
StorePages(st, prefix, delimited) ==
    LET all == ListedEntries(st, prefix, delimited)
        n   == Max(1, (Len(all) + ListMaxKeys - 1) \div ListMaxKeys)
        part(p) == SubSeq(all, (p - 1) * ListMaxKeys + 1, Min(p * ListMaxKeys, Len(all)))
    IN  [p \in 1..n |->
            [CommonPrefixes |-> SelectSeq(part(p), LAMBDA e : e.common),
             Contents       |-> SelectSeq(part(p), LAMBDA e : ~e.common)]]

(***************************************************************************)
(* S3Client.ListAllObjectsUnderPrefix                                      *)
(***************************************************************************)
\* S3Object{Name, Key, IsFolder, Size}
S3Object(name, key, isFolder, size) ==
    [Name |-> name, Key |-> key, IsFolder |-> isFolder, Size |-> size]

\* ObjectLess that compares the names only
ObjectLessByName(a, b) == StrLess(a.Name, b.Name)

\* the comparison handed to sort.Slice
ObjectLess(a, b) ==
    IF a.IsFolder /\ ~b.IsFolder THEN TRUE
    ELSE IF ~a.IsFolder /\ b.IsFolder THEN FALSE
    ELSE StrLess(a.Name, b.Name)

\* sort.Slice(objects, less)
RECURSIVE SortObjects(_)
SortObjects(objs) ==
    IF Len(objs) <= 1 THEN objs
    ELSE LET rest == SortObjects(Tail(objs))
             x    == Head(objs)
             lo   == SelectSeq(rest, LAMBDA y : ~ObjectLess(x, y))
             hi   == SelectSeq(rest, LAMBDA y : ObjectLess(x, y))
         IN  lo \o <<x>> \o hi

\* the loop over page.CommonPrefixes: acc is [objects, processedKeys]
RECURSIVE AddCommonPrefixes(_, _, _)
AddCommonPrefixes(acc, cps, prefix) ==
    IF cps = <<>> THEN acc
    ELSE LET fullKey == Head(cps).key
             trimmed == TrimSuffix(fullKey, <<"/">>)
             name    == IF prefix # <<>> THEN TrimPrefix(trimmed, prefix) ELSE trimmed
         IN  IF fullKey \in acc.processedKeys
             THEN AddCommonPrefixes(acc, Tail(cps), prefix)
             ELSE AddCommonPrefixes(
                    [objects |-> Append(acc.objects, S3Object(name, fullKey, TRUE, 0)),
                     processedKeys |-> acc.processedKeys \cup {fullKey}],
                    Tail(cps), prefix)

\* the loop over page.Contents
RECURSIVE AddContents(_, _, _, _)
AddContents(acc, contents, prefix, st) ==
    IF contents = <<>> THEN acc
    ELSE LET fullKey == Head(contents).key
             size    == st[fullKey]
             seen    == [acc EXCEPT !.processedKeys = @ \cup {fullKey}]
         IN  IF fullKey \in acc.processedKeys
             THEN AddContents(acc, Tail(contents), prefix, st)
             ELSE IF HasSuffix(fullKey, <<"/">>) /\ size = 0
             THEN AddContents(seen, Tail(contents), prefix, st)
             ELSE AddContents(
                    [seen EXCEPT !.objects =
                        Append(@, S3Object(TrimPrefix(fullKey, prefix), fullKey, FALSE, size))],
                    Tail(contents), prefix, st)

\* the loop over the paginator's pages
RECURSIVE AddPages(_, _, _, _)
AddPages(acc, pages, prefix, st) ==
    IF pages = <<>> THEN acc
    ELSE AddPages(
            AddContents(AddCommonPrefixes(acc, Head(pages).CommonPrefixes, prefix),
                        Head(pages).Contents, prefix, st),
            Tail(pages), prefix, st)

ListAllObjectsUnderPrefix(st, prefix) ==
    SortObjects(AddPages([objects |-> <<>>, processedKeys |-> {}],
                         StorePages(st, prefix, TRUE), prefix, st).objects)

(***************************************************************************)
(* S3Client.ListAllKeysUnderPrefix: every key under the prefix, no         *)
(* delimiter, in the store's order.                                        *)
(***************************************************************************)
RECURSIVE KeysOfPages(_)
KeysOfPages(pages) ==
    IF pages = <<>> THEN <<>>
    ELSE [i \in 1..Len(Head(pages).Contents) |-> Head(pages).Contents[i].key]
            \o KeysOfPages(Tail(pages))

\* ListAllKeysUnderPrefix with the delimiter of the object listing
ListAllKeysUnderPrefixDelimited(st, prefix) == KeysOfPages(StorePages(st, prefix, TRUE))

ListAllKeysUnderPrefix(st, prefix) == KeysOfPages(StorePages(st, prefix, FALSE))

(***************************************************************************)
(* int32 arithmetic of Go: results wrap modulo 2^32.  The operands are     *)
(* taken apart into 16-bit and 8-bit limbs so that no intermediate value   *)
(* leaves the range of the integers the model checker computes with.       *)
(***************************************************************************)
\* x * y modulo 2^16, for 0 <= x, y < 2^16
MulMod16(x, y) == (((((x \div 256) * y) % 256) * 256) + ((x % 256) * y)) % 65536

\* the upper 16 bits of x * y, for 0 <= x, y < 2^16
MulHigh16(x, y) ==
    LET x1 == x \div 256
        x0 == x % 256
        y1 == y \div 256
        y0 == y % 256
        m  == x1 * y0 + x0 * y1
        t  == (m % 256) * 256 + x0 * y0
    IN  (t \div 65536) + (m \div 256) + x1 * y1

\* the two's complement value of the 32 bits hi:lo
FromLimbs(hi, lo) ==
    IF hi >= 32768 THEN (hi - 65536) * 65536 + lo ELSE hi * 65536 + lo

\* int32 a * int32 b
Int32Mul(a, b) ==
    LET ah == (a \div 65536) % 65536
        al == a % 65536
        bh == (b \div 65536) % 65536
        bl == b % 65536
        lo == MulMod16(al, bl)
        hi == (MulHigh16(al, bl) + MulMod16(ah, bl) + MulMod16(al, bh)) % 65536
    IN  FromLimbs(hi, lo)

\* int32 a + int32 b
Int32Add(a, b) ==
    LET lo == (a % 65536) + (b % 65536)
        hi == ((a \div 65536) % 65536) + ((b \div 65536) % 65536) + (lo \div 65536)
    IN  FromLimbs(hi % 65536, lo % 65536)

(***************************************************************************)
(* S3Client.ListObjects: the full listing, sliced into pages that are      *)
(* addressed by the marker "page_<n>".                                     *)
(***************************************************************************)
PagePrefix == <<"p", "a", "g", "e", "_">>

\* fmt.Sprintf("page_%d", n)
PageMarker(n) == PagePrefix \o Itoa(n)

IsDigit(c) == \E d \in 1..10 : Digits[d] = c

DigitValue(c) == (CHOOSE d \in 1..10 : Digits[d] = c) - 1

\* the value of a string of decimal digits
RECURSIVE DecimalValue(_)
DecimalValue(ds) ==
    IF ds = <<>> THEN 0
    ELSE DecimalValue(SubSeq(ds, 1, Len(ds) - 1)) * 10 + DigitValue(ds[Len(ds)])

\* the longest prefix of s that consists of decimal digits
LeadingDigits(s) ==
    LET stop == {i \in 1..Len(s) : ~IsDigit(s[i])}
        n    == IF stop = {} THEN Len(s) ELSE (CHOOSE i \in stop : \A j \in stop : i <= j) - 1
    IN  SubSeq(s, 1, n)

\* var page int; fmt.Sscanf(marker, "page_%d", &page): page stays 0 when
\* the marker does not match
ParsePage(marker) ==
    IF ~HasPrefix(marker, PagePrefix) THEN 0
    ELSE LET rest   == TrimPrefix(marker, PagePrefix)
             neg    == rest # <<>> /\ rest[1] = "-"
             signed == rest # <<>> /\ rest[1] \in {"-", "+"}
             digits == LeadingDigits(IF signed THEN Tail(rest) ELSE rest)
         IN  IF digits = <<>> THEN 0
             ELSE IF neg THEN 0 - DecimalValue(digits) ELSE DecimalValue(digits)

NoMarker == [some |-> FALSE, value |-> <<>>]

SomeMarker(m) == [some |-> TRUE, value |-> m]

\* what a call returns: the page, the next marker, or the panic of a slice
\* expression whose bounds are out of range
ListResult(objects, nextMarker) ==
    [objects |-> objects, nextMarker |-> nextMarker, panic |-> FALSE]

ListPanic == [objects |-> <<>>, nextMarker |-> NoMarker, panic |-> TRUE]

\* allObjects[lo:hi]
Slice(allObjects, lo, hi, nextMarker) ==
    IF 0 <= lo /\ lo <= hi /\ hi <= Len(allObjects)
    THEN ListResult(SubSeq(allObjects, lo + 1, hi), nextMarker)
    ELSE ListPanic

\* append(folders, files...)
FoldersFirst(allObjects) ==
    SelectSeq(allObjects, LAMBDA o : o.IsFolder) \o SelectSeq(allObjects, LAMBDA o : ~o.IsFolder)

\* the branch of the empty marker
ListFirstPage(allObjects, psize) ==
    IF Len(allObjects) <= psize THEN ListResult(allObjects, NoMarker)
    ELSE Slice(allObjects, 0, psize, SomeMarker(PageMarker(2)))

\* ListMarkedPage with the window of page n starting at n * psize
ListMarkedPageOffByOne(allObjects, marker, psize) ==
    LET page       == ParsePage(marker)
        startIndex == Int32Mul(page, psize)
        past       == Int32Add(startIndex, psize)
        endIndex   == IF past > Len(allObjects) THEN Len(allObjects) ELSE past
    IN  IF startIndex >= Len(allObjects) THEN ListResult(<<>>, NoMarker)
        ELSE Slice(allObjects, startIndex, endIndex,
                   IF endIndex < Len(allObjects) THEN SomeMarker(PageMarker(page + 1))
                   ELSE NoMarker)

\* the branch of a marker
ListMarkedPage(allObjects, marker, psize) ==
    LET page       == ParsePage(marker)
        startIndex == Int32Mul(page - 1, psize)
        past       == Int32Add(startIndex, psize)
        endIndex   == IF past > Len(allObjects) THEN Len(allObjects) ELSE past
    IN  IF startIndex >= Len(allObjects) THEN ListResult(<<>>, NoMarker)
        ELSE Slice(allObjects, startIndex, endIndex,
                   IF endIndex < Len(allObjects) THEN SomeMarker(PageMarker(page + 1))
                   ELSE NoMarker)

\* ListObjects(bucketName, prefix, marker, psize) when the store answers
ListObjects(st, prefix, marker, psize) ==
    LET allObjects == FoldersFirst(ListAllObjectsUnderPrefix(st, prefix))
    IN  IF marker = <<>> THEN ListFirstPage(allObjects, psize)
        ELSE ListMarkedPage(allObjects, marker, psize)

\* no bulk operation: the fields of batch are
\*   kind        upload, download, delete or paste
\*   pc          scan, folders, files, report, aborted (scan errors), empty
\*   paths       localPaths of startUploadProcess
\*   selected    the selected (or copied) objects of the other kinds
\*   scanQueue   the channel read by the scan workers
\*   scanning    what scan goroutines hold at the moment
\*   scanErrors  len(scanErrors)
\*   folders     foldersToCreate
\*   files       filesToUpload / filesToDownload
\*   totalSize   totalSize / totalDownloadSize
\*   totalItems  totalItemsToDelete
\*   queue       the channel read by the workers: indices into jobs
\*   bytes       bytesUploaded / bytesDownloaded
\*   failed      failedUploads / failedDownloads / failedDeletions / errors
\*   deleted     currentDeletedItems
\*   successCount of pasteS3Objects
\*   issued      the kinds of mutating calls made so far
\*   rewinds     how often the SDK has rewound a request body
BatchIdle ==
    [kind |-> "none", pc |-> "idle", paths |-> {}, selected |-> {},
     scanQueue |-> <<>>, scanning |-> {}, scanErrors |-> 0,
     folders |-> <<>>, files |-> <<>>, totalSize |-> 0, totalItems |-> 0,
     queue |-> <<>>, bytes |-> 0, failed |-> <<>>, deleted |-> 0,
     successCount |-> 0, issued |-> {}, rewinds |-> 0]

\* no listing shown and no loadObjects under way
ViewIdle ==
    [currentPage |-> 1, pageMarkers |-> << <<>> >>, nextPageMarker |-> NoMarker,
     objects |-> <<>>, loading |-> FALSE, loads |-> <<>>, delivered |-> <<>>,
     selected |-> {}]

\* no call of FormatFileNameForDisplay
LabelIdle == [pc |-> "idle"]

PagerIdle ==
    [pc |-> "idle", marker |-> <<>>, n |-> 0, asked |-> 0, first |-> <<>>,
     pages |-> <<>>, last |-> ListResult(<<>>, NoMarker)]

(***************************************************************************)
(* findAvailableObjectKey and findAvailableFolderName, one store call per  *)
(* step.  resolver = [kind, name, i, pc, listed, probed, result, faults,   *)
(* head]: name is s3Key (object) or baseName (folder), i the loop counter  *)
(* (0 for the check of the original name), probed the log of the names     *)
(* checked with what the existence probe reported for each, head the       *)
(* outcome of the latest HEAD call.                                        *)
(***************************************************************************)
\* ObjectProbeKey with the number appended after the extension
ObjectProbeKeyAfterExt(s3Key, i) ==
    IF i = 0 THEN s3Key ELSE NumberedName(s3Key, i, <<>>)

\* the key probed in round i of findAvailableObjectKey
ObjectProbeKey(s3Key, i) ==
    IF i = 0 THEN s3Key
    ELSE LET ext == Ext(s3Key)
             keyWithoutExt == TrimSuffix(s3Key, ext)
         IN  NumberedName(keyWithoutExt, i, ext)

\* the folder name tried in round i of findAvailableFolderName
FolderProbeName(baseName, i) ==
    IF i = 0 THEN baseName ELSE NumberedName(baseName, i, <<>>)

\* destKeyPrefix of findAvailableFolderName
DestKeyPrefix(prefix, name) == prefix \o name \o <<"/">>

ResolverIdle ==
    [kind |-> "none", name |-> <<>>, i |-> 0, pc |-> "idle", listed |-> 0,
     probed |-> <<>>, result |-> <<>>, faults |-> 0, head |-> HeadOK]

ResolverStart(kind, name) ==
    [kind |-> kind, name |-> name, i |-> 0,
     pc |-> IF kind = "object" THEN "head" ELSE "list",
     listed |-> 0, probed |-> <<>>, result |-> <<>>, faults |-> 0, head |-> HeadOK]

\* the HEAD outcomes the store may give in this step
HeadOutcomes(st, key, faults) ==
    HeadAnswers(st, key) \cup (IF faults < MaxHeadFaults THEN HeadFaults ELSE {})

\* after the existence of the name of round r.i is known
ResolverDecide(r, probeName, exists) ==
    IF exists
    THEN [r EXCEPT !.i = @ + 1,
                   !.pc = IF r.kind = "object" THEN "head" ELSE "list",
                   !.probed = Append(@, [name |-> probeName, exists |-> TRUE])]
    ELSE [r EXCEPT !.pc = "done", !.result = probeName,
                   !.probed = Append(@, [name |-> probeName, exists |-> FALSE])]

\* findAvailableObjectKey: one ObjectExists call and what follows it
ObjectKeyStep ==
    /\ resolver.kind = "object" /\ resolver.pc = "head"
    /\ LET newKey == ObjectProbeKey(resolver.name, resolver.i)
       IN  \E head \in HeadOutcomes(store, newKey, resolver.faults) :
             LET res  == ObjectExists(newKey, head)
                 used == [resolver EXCEPT
                             !.faults = IF head \in HeadFaults THEN @ + 1 ELSE @,
                             !.head = head]
             IN  resolver' = IF res.err THEN [used EXCEPT !.pc = "error"]
                             ELSE ResolverDecide(used, newKey, res.exists)
    /\ UNCHANGED <<store, currentPrefix, pageSize, pager, batch, jobs, localFiles, view, label>>

\* findAvailableFolderName: the ListAllObjectsUnderPrefix call of a round
FolderNameList ==
    /\ resolver.kind = "folder" /\ resolver.pc = "list"
    /\ LET destKeyPrefix ==
               DestKeyPrefix(currentPrefix, FolderProbeName(resolver.name, resolver.i))
       IN  \/ resolver' = [resolver EXCEPT
                  !.pc = "head",
                  !.listed = Len(ListAllObjectsUnderPrefix(store, destKeyPrefix))]
           \/ /\ resolver.faults < MaxHeadFaults
              /\ resolver' = [resolver EXCEPT !.pc = "error", !.faults = @ + 1]
    /\ UNCHANGED <<store, currentPrefix, pageSize, pager, batch, jobs, localFiles, view, label>>

\* findAvailableFolderName: the ObjectExists call of a round and the test
FolderNameHead ==
    /\ resolver.kind = "folder" /\ resolver.pc = "head"
    /\ LET newName == FolderProbeName(resolver.name, resolver.i)
           destKeyPrefix == DestKeyPrefix(currentPrefix, newName)
       IN  \E head \in HeadOutcomes(store, destKeyPrefix, resolver.faults) :
             LET res  == ObjectExists(destKeyPrefix, head)
                 used == [resolver EXCEPT
                             !.faults = IF head \in HeadFaults THEN @ + 1 ELSE @,
                             !.head = head]
             IN  resolver' =
                   IF res.err THEN [used EXCEPT !.pc = "error"]
                   ELSE ResolverDecide(used, newName,
                                       ~(resolver.listed = 0 /\ ~res.exists))
    /\ UNCHANGED <<store, currentPrefix, pageSize, pager, batch, jobs, localFiles, view, label>>

(***************************************************************************)
(* SpecResolve: one name resolution against a store nobody else writes.    *)
(***************************************************************************)
\* ov.currentPrefix: the bucket root, a folder, a folder with a dot in its name
ResolvePrefixes == {<<>>, <<"d", "/">>, <<"d", ".", "e", "/">>}

\* file names given to findAvailableObjectKey (after the prefix)
ResolveFileNames == {<<"a", ".", "t">>, <<"a">>, <<".", "t">>}

\* folder names given to findAvailableFolderName
ResolveFolderNames == {<<"a">>, <<"a", ".", "t">>}

\* the keys an initial store is drawn from, for a candidate object key
\* taken apart as base and ext
ObjectKeyUniverse(base, ext) ==
    {base \o ext,
     base \o <<"(", "1", ")">> \o ext,
     base \o <<"(", "2", ")">> \o ext,
     base \o ext \o <<"(", "1", ")">>}

\* the same for a candidate folder name under prefix
FolderKeyUniverse(prefix, name) ==
    {prefix \o name \o <<"/">>,
     prefix \o name \o <<"/", "b">>,
     prefix \o name \o <<"(", "1", ")", "/">>,
     prefix \o name \o <<"(", "1", ")", "/", "c", "/", "b">>,
     prefix \o name \o <<"(", "2", ")", "/", "b">>}

\* a store holding these keys: folder markers are empty, the rest one byte
StoreWith(keys) == [k \in keys |-> IF HasSuffix(k, <<"/">>) THEN 0 ELSE 1]

\* base and extension of a file name, as the specification splits it
SplitName(fileName) ==
    IF fileName = <<"a", ".", "t">> THEN [base |-> <<"a">>, ext |-> <<".", "t">>]
    ELSE IF fileName = <<".", "t">> THEN [base |-> <<>>, ext |-> <<".", "t">>]
    ELSE [base |-> fileName, ext |-> <<>>]

InitResolve ==
    /\ pageSize = 0
    /\ batch = BatchIdle /\ jobs = <<>> /\ localFiles = EmptyStore
    /\ view = ViewIdle /\ label = LabelIdle
    /\ pager = PagerIdle
    /\ currentPrefix \in ResolvePrefixes
    /\ \/ \E f \in ResolveFileNames :
            /\ resolver = ResolverStart("object", currentPrefix \o f)
            /\ \E ks \in SUBSET ObjectKeyUniverse(currentPrefix \o SplitName(f).base,
                                                  SplitName(f).ext) :
                 store = StoreWith(ks)
       \/ \E n \in ResolveFolderNames :
            /\ resolver = ResolverStart("folder", n)
            /\ \E ks \in SUBSET FolderKeyUniverse(currentPrefix, n) :
                 store = StoreWith(ks)

NextResolve == ObjectKeyStep \/ FolderNameList \/ FolderNameHead

SpecResolve == InitResolve /\ [][NextResolve]_vars

(***************************************************************************)
(* Properties of name resolution (SpecResolve).                            *)
(***************************************************************************)
\* the name the specification expects in round i: the candidate itself,
\* then base(i)ext
ExpectedProbeName(r, prefix, i) ==
    IF r.kind = "object"
    THEN LET sp == SplitName(TrimPrefix(r.name, prefix))
         IN  IF i = 0 THEN r.name
             ELSE prefix \o sp.base \o <<"(">> \o Itoa(i) \o <<")">> \o sp.ext
    ELSE IF i = 0 THEN r.name ELSE r.name \o <<"(">> \o Itoa(i) \o <<")">>

\* C7: name resolution returns the candidate when the existence probe
\* reports it free, and otherwise base(i)ext for the smallest i >= 1 reported
\* free, having probed the candidate and then i = 1, 2, ... in increasing
\* order; it never returns a name the probe reported as existing; and it
\* terminates: it makes at most one more round than the store has keys and
\* is never stuck before it returns.
ResolveReturnsFirstFreeName ==
    LET n == Len(resolver.probed)
    IN  /\ \A j \in 1..n :
              resolver.probed[j].name = ExpectedProbeName(resolver, currentPrefix, j - 1)
        /\ \A j \in 1..(n - 1) : resolver.probed[j].exists
        /\ resolver.pc = "done" =>
              /\ n >= 1
              /\ ~resolver.probed[n].exists
              /\ resolver.result = resolver.probed[n].name
              /\ \A j \in 1..n : resolver.probed[j].exists => resolver.result # resolver.probed[j].name
        /\ resolver.pc \notin {"done", "error"} =>
              /\ \A j \in 1..n : resolver.probed[j].exists
              /\ resolver.pc \in {"head", "list"}
              /\ resolver.pc = "list" => resolver.kind = "folder"
        /\ resolver.i <= Cardinality(Keys(store))

\* C7 witness: the candidate and base(1)ext are both taken, base(2)ext is returned
ResolveSecondNameReturned ==
    /\ resolver.pc = "done" /\ resolver.kind = "object" /\ resolver.faults = 0
    /\ Len(resolver.probed) = 3
    /\ resolver.result = <<"d", ".", "e", "/", "a", "(", "2", ")">>

\* C8: the existence probe maps a HEAD outcome of 404 / NoSuchKey and of
\* 400 to "does not exist" without error, so the resolver takes the name; a
\* successful HEAD to "exists"; and every other HEAD failure to an error, on
\* which the resolver returns the error and no name.
ProbeMapsHeadOutcomes ==
    (resolver.kind = "object" /\ (resolver.probed # <<>> \/ resolver.pc = "error")) =>
        LET h == resolver.head
            n == Len(resolver.probed)
        IN  IF h.ok THEN resolver.pc = "head" /\ resolver.probed[n].exists
            ELSE IF h.noSuchKey \/ h.status \in {404, 400}
            THEN resolver.pc = "done" /\ ~resolver.probed[n].exists
            ELSE resolver.pc = "error" /\ resolver.result = <<>>

\* C29: every key findAvailableObjectKey probes, and the key it returns,
\* starts with the prefix of the candidate and has a single path segment
\* after it: only the final segment of the candidate is changed, also when
\* the prefix holds a dot and the file name has no extension.
ResolvedKeyKeepsParentFolder ==
    resolver.kind = "object" =>
        LET inFolder(k) == /\ HasPrefix(k, currentPrefix)
                           /\ ~Contains(TrimPrefix(k, currentPrefix), <<"/">>)
        IN  /\ \A j \in DOMAIN resolver.probed : inFolder(resolver.probed[j].name)
            /\ resolver.pc = "done" => inFolder(resolver.result)

\* C29 witness: under the dotted prefix d.e/ the name a without extension
\* is taken and a(1) is returned
DottedPrefixNumberedName ==
    /\ resolver.pc = "done" /\ resolver.kind = "object"
    /\ currentPrefix = <<"d", ".", "e", "/">>
    /\ resolver.name = <<"d", ".", "e", "/", "a">>
    /\ Len(resolver.probed) = 2
    /\ resolver.result = <<"d", ".", "e", "/", "a", "(", "1", ")">>

(***************************************************************************)
(* SpecList: a caller fetches pages of one prefix from a store nobody      *)
(* writes.  Its first marker is the empty one or "page_<n>"; after that it *)
(* passes the nextMarker of the page before, until none is returned.       *)
(* pager = [pc, marker, n, asked, first, pages, last]: marker is the       *)
(* marker of the next call and n the number of the page it asks for,       *)
(* asked the number of the page the latest call asked for, pages the       *)
(* pages fetched so far, last the result of the latest call.               *)
(***************************************************************************)
\* the largest page size of a call
MaxPageSize == 3

\* the largest page number of a first marker
MaxPage == 4

PagerStart(marker, n) ==
    [pc |-> "call", marker |-> marker, n |-> n, asked |-> 0, first |-> marker,
     pages |-> <<>>, last |-> ListResult(<<>>, NoMarker)]

\* the caller's side of one ListObjects call that returned res
PagerAfter(pg, res) ==
    IF res.panic THEN [pg EXCEPT !.pc = "panic", !.asked = pg.n, !.last = res]
    ELSE [pg EXCEPT !.pc = IF res.nextMarker.some THEN "call" ELSE "done",
                    !.asked = pg.n,
                    !.marker = IF res.nextMarker.some THEN res.nextMarker.value ELSE @,
                    !.n = IF res.nextMarker.some THEN @ + 1 ELSE @,
                    !.pages = Append(@, res.objects),
                    !.last = res]

\* one call of ListObjects
FetchPage ==
    /\ pager.pc = "call"
    /\ pager' = PagerAfter(pager, ListObjects(store, currentPrefix, pager.marker, pageSize))
    /\ UNCHANGED <<store, currentPrefix, resolver, pageSize, batch, jobs, localFiles, view, label>>

\* the store fails the listing: ListObjects returns the error
FetchPageFails ==
    /\ pager.pc = "call"
    /\ pager' = [pager EXCEPT !.pc = "error"]
    /\ UNCHANGED <<store, currentPrefix, resolver, pageSize, batch, jobs, localFiles, view, label>>

\* the keys an initial store of SpecList is drawn from
ListKeyUniverse ==
    {<<"a">>, <<"b", "/", "a">>, <<"c">>, <<"d", "/">>, <<"d", "/", "a">>,
     <<"d", "/", "c", "/", "b">>, <<"e">>}

\* the prefixes listed: the bucket root and a folder
ListPrefixes == {<<>>, <<"d", "/">>}

\* sizes of the object stored under a key that ends in the delimiter: a
\* folder marker written by CreateFolder is empty, one written by another
\* client need not be
MarkerSizes == {0, 1}

InitList ==
    /\ resolver = ResolverIdle
    /\ batch = BatchIdle /\ jobs = <<>> /\ localFiles = EmptyStore
    /\ view = ViewIdle /\ label = LabelIdle
    /\ currentPrefix \in ListPrefixes
    /\ pageSize \in 1..MaxPageSize
    /\ \E ks \in SUBSET ListKeyUniverse : \E ms \in MarkerSizes :
          /\ (ms # 0 => \E k \in ks : HasSuffix(k, <<"/">>))
          /\ store = [k \in ks |-> IF HasSuffix(k, <<"/">>) THEN ms ELSE 1]
    /\ \/ pager = PagerStart(<<>>, 1)
       \/ \E n \in 1..MaxPage : pager = PagerStart(PageMarker(n), n)

NextList == FetchPage \/ FetchPageFails

SpecList == InitList /\ [][NextList]_vars

(***************************************************************************)
(* Properties of the paged listing (SpecList).                             *)
(***************************************************************************)
RECURSIVE Flatten(_)
Flatten(seqs) == IF seqs = <<>> THEN <<>> ELSE Head(seqs) \o Flatten(Tail(seqs))

\* the immediate children of a prefix: a folder for every first path
\* segment that keys below the prefix share, a file for every other key
\* below the prefix
ImmediateChildren(st, prefix) ==
    LET below == {k \in Keys(st) : HasPrefix(k, prefix) /\ k # prefix}
        rest(k) == SubSeq(k, Len(prefix) + 1, Len(k))
    IN  {[Key |-> k, IsFolder |-> FALSE] : k \in {b \in below : IndexSlash(rest(b)) = 0}}
          \cup {[Key |-> prefix \o SubSeq(rest(k), 1, IndexSlash(rest(k))), IsFolder |-> TRUE] :
                    k \in {b \in below : IndexSlash(rest(b)) > 0}}

\* C9: starting at the empty marker and following nextMarker until it is
\* absent visits finitely many pages whose concatenation holds every
\* immediate child of the prefix exactly once and nothing else.
PagesAreExactlyTheChildren ==
    (pager.pc = "done" /\ pager.first = <<>>) =>
        LET all      == Flatten(pager.pages)
            children == ImmediateChildren(store, currentPrefix)
        IN  /\ {[Key |-> all[i].Key, IsFolder |-> all[i].IsFolder] : i \in 1..Len(all)} = children
            /\ Len(all) = Cardinality(children)
            /\ Len(pager.pages) <= Cardinality(children) + 1

\* C10: the empty marker and "page_1" return L[0 .. s), "page_n" returns
\* L[(n-1)*s .. min(n*s, |L|)), and the nextMarker is "page_<n+1>" exactly
\* when n*s < |L| and absent otherwise, L being the sorted list of the prefix.
PageIsWindowOfList ==
    (pager.pc \in {"call", "done", "panic"} /\ pager.asked >= 1) =>
        LET L == FoldersFirst(ListAllObjectsUnderPrefix(store, currentPrefix))
            n == pager.asked
        IN  /\ pager.pc # "panic"
            /\ pager.last.objects =
                  SubSeq(L, (n - 1) * pageSize + 1, Min(n * pageSize, Len(L)))
            /\ pager.last.nextMarker =
                  IF n * pageSize < Len(L)
                  THEN SomeMarker(<<"p", "a", "g", "e", "_">> \o Itoa(n + 1))
                  ELSE NoMarker

\* C10 witness: five entries in pages of two: the third page, fetched with
\* the marker of the second, holds the last entry and has no marker
ThirdPageOfFiveEntries ==
    /\ pager.pc = "done" /\ pager.first = <<>> /\ pageSize = 2
    /\ Len(pager.pages) = 3
    /\ Len(pager.pages[1]) = 2 /\ Len(pager.pages[2]) = 2 /\ Len(pager.pages[3]) = 1
    /\ pager.marker = <<"p", "a", "g", "e", "_", "3">>

(***************************************************************************)
(* SpecFetch: page fetches with any marker and any page size.  A pager at  *)
(* "call" calls S3Client.ListObjects with the marker it holds, as          *)
(* SpecList does; a pager at "load" is ObjectsView.loadObjects, which      *)
(* lists without paging when the page size is 0, followed by the next      *)
(* button for as long as a page comes with a marker.                       *)
(***************************************************************************)
\* a page number n with (n - 1) * 2 = 2^31
FarPage == 2^30 + 1

\* the markers handed to ListObjects: those it issues and others
FetchMarkers ==
    {<<>>, <<"x">>, PageMarker(FarPage)} \cup {PageMarker(n) : n \in 0..MaxPage}

\* the keys an initial store of SpecFetch is drawn from
FetchKeyUniverse ==
    {<<"B">>, <<"a">>, <<"b", "/", "a">>, <<"d", "/">>, <<"d", "/", "a">>,
     <<"d", "/", "c", "/", "b">>}

\* LoadObjectsFetch that pages whatever the page size
LoadObjectsFetchPaged(st, prefix, marker, psize) == ListObjects(st, prefix, marker, psize)

\* the goroutine of loadObjects: the listing of the page shown
LoadObjectsFetch(st, prefix, marker, psize) ==
    IF psize = 0
    THEN ListResult(ListAllObjectsUnderPrefix(st, prefix), NoMarker)
    ELSE ListObjects(st, prefix, marker, psize)

\* loadObjects, and the next button when the page came with a marker
LoadObjects ==
    /\ pager.pc = "load"
    /\ LET res   == LoadObjectsFetch(store, currentPrefix, pager.marker, pageSize)
           after == PagerAfter(pager, res)
       IN  pager' = [after EXCEPT !.pc = IF @ = "call" THEN "load" ELSE @]
    /\ UNCHANGED <<store, currentPrefix, resolver, pageSize, batch, jobs, localFiles, view, label>>

InitFetch ==
    /\ resolver = ResolverIdle
    /\ batch = BatchIdle /\ jobs = <<>> /\ localFiles = EmptyStore
    /\ view = ViewIdle /\ label = LabelIdle
    /\ currentPrefix \in ListPrefixes
    /\ \E ks \in SUBSET FetchKeyUniverse : \E ms \in MarkerSizes :
          /\ (ms # 0 => \E k \in ks : HasSuffix(k, <<"/">>))
          /\ store = [k \in ks |-> IF HasSuffix(k, <<"/">>) THEN ms ELSE 1]
    /\ \/ /\ pageSize \in 1..MaxPageSize
          /\ \E m \in FetchMarkers :
               pager = PagerStart(m, IF m = <<>> THEN 1 ELSE ParsePage(m))
       \/ /\ pageSize \in 0..MaxPageSize
          /\ pager = [PagerStart(<<>>, 1) EXCEPT !.pc = "load"]

NextFetch == FetchPage \/ FetchPageFails \/ LoadObjects

SpecFetch == InitFetch /\ [][NextFetch]_vars

(***************************************************************************)
(* Properties of the page fetches (SpecFetch).                             *)
(***************************************************************************)
\* the list the pages are cut from
FullList == FoldersFirst(ListAllObjectsUnderPrefix(store, currentPrefix))

\* the first call of a pager that calls ListObjects has returned
FirstCallReturned ==
    /\ pager.pc \in {"call", "done", "panic"}
    /\ Len(pager.pages) + (IF pager.pc = "panic" THEN 1 ELSE 0) = 1

\* C11: for a marker "page_n", n >= 1, whose window starts at or past the
\* end of the list, ListObjects returns an empty page, no nextMarker and no
\* error.
PageBeyondEndIsEmpty ==
    (/\ FirstCallReturned
     /\ \E n \in (1..(MaxPage + 1)) \cup {FarPage} :
          /\ pager.first = PageMarker(n)
          /\ (n - 1) >= (Len(FullList) + pageSize - 1) \div pageSize)
    => /\ pager.pc = "done"
       /\ pager.last.objects = <<>>
       /\ ~pager.last.nextMarker.some

\* C30: for every non-empty marker (page_0, a marker that is not page_<n>,
\* a page number whose offset wraps in int32) and every page size >= 1 the
\* slice of the call is taken within the list, 0 <= start <= end <= |L|, or
\* an empty page is returned: the slice expression never panics.
MarkedFetchSlicesWithinList ==
    (FirstCallReturned /\ pager.first # <<>> /\ pageSize >= 1) =>
        LET startIndex == Int32Mul(ParsePage(pager.first) - 1, pageSize)
            past       == Int32Add(startIndex, pageSize)
            endIndex   == IF past > Len(FullList) THEN Len(FullList) ELSE past
        IN  /\ ~pager.last.panic
            /\ \/ pager.last.objects = <<>> /\ startIndex >= Len(FullList)
               \/ 0 <= startIndex /\ startIndex <= endIndex /\ endIndex <= Len(FullList)

\* folders before files, and ascending names within the folders and the files
InListingOrder(objs) ==
    \A i, j \in 1..Len(objs) :
        i < j => /\ objs[i].IsFolder \/ ~objs[j].IsFolder
                 /\ (objs[i].IsFolder = objs[j].IsFolder)
                       => ~StrLess(objs[j].Name, objs[i].Name)

\* every immediate child of the prefix is in objs exactly once
HoldsEveryChild(objs) ==
    \A c \in ImmediateChildren(store, currentPrefix) :
        Cardinality({i \in 1..Len(objs) :
                        objs[i].Key = c.Key /\ objs[i].IsFolder = c.IsFolder}) = 1

ListingsAreOrdered ==
    /\ InListingOrder(ListAllObjectsUnderPrefix(store, currentPrefix))
    /\ InListingOrder(Flatten(pager.pages))

\* two pages of two: the folders b and d, then the files B and a
FoldersThenUpperThenLower ==
    /\ pager.pc = "done" /\ pager.first = <<>> /\ pageSize = 2
    /\ Len(pager.pages) = 2
    /\ Len(pager.pages[1]) = 2 /\ Len(pager.pages[2]) = 2
    /\ pager.pages[1][1].Name = <<"b">> /\ pager.pages[1][2].Name = <<"d">>
    /\ pager.pages[2][1].Name = <<"B">> /\ pager.pages[2][2].Name = <<"a">>

\* C14: no listing of a prefix holds an entry whose key is the prefix
\* itself, whatever the size of the object stored under that key.
PrefixItselfNeverListed ==
    LET full  == ListAllObjectsUnderPrefix(store, currentPrefix)
        paged == Flatten(pager.pages)
    IN  /\ \A i \in 1..Len(full) : full[i].Key # currentPrefix
        /\ \A i \in 1..Len(paged) : paged[i].Key # currentPrefix

(***************************************************************************)
(* SpecFormat: FormatFileNameForDisplay on every short name.               *)
(***************************************************************************)
MaxNameLen == 4

MaxDisplayLength == 8

\* the file names: every string of "a", "b" and "." up to MaxNameLen long
FormatNames == UNION {[1..n -> {"a", "b", "."}] : n \in 0..MaxNameLen}

\* s[:n], which panics if n is negative or beyond the length
SliceTo(s, n) ==
    IF n < 0 \/ n > Len(s) THEN [panic |-> TRUE, text |-> <<>>]
    ELSE [panic |-> FALSE, text |-> SubSeq(s, 1, n)]

\* s + t, the panic of s carried on
Plus(s, t) == IF s.panic THEN s ELSE [panic |-> FALSE, text |-> s.text \o t]

Ellipsis == <<".", ".", ".">>

FormatFileNameForDisplay(fileName, maxDisplayLength) ==
    LET ext == Ext(fileName)
        baseName == TrimSuffix(fileName, ext)
        availableBaseLen == maxDisplayLength - 3 - Len(ext)
    IN  IF availableBaseLen < 0
        THEN IF Len(fileName) > maxDisplayLength
             THEN Plus(SliceTo(fileName, maxDisplayLength - 3), Ellipsis)
             ELSE [panic |-> FALSE, text |-> fileName]
        ELSE IF Len(baseName) > availableBaseLen
        THEN Plus(Plus(SliceTo(baseName, availableBaseLen), Ellipsis), ext)
        ELSE [panic |-> FALSE, text |-> fileName]

\* the call returns, or panics
FormatName ==
    /\ label.pc = "call"
    /\ label' = [label EXCEPT !.pc = "done",
                              !.result = FormatFileNameForDisplay(label.name, label.max)]
    /\ UNCHANGED <<store, currentPrefix, resolver, pageSize, pager, batch, jobs, localFiles, view>>

InitFormat ==
    /\ resolver = ResolverIdle /\ pager = PagerIdle /\ pageSize = 0
    /\ batch = BatchIdle /\ jobs = <<>> /\ localFiles = EmptyStore
    /\ view = ViewIdle
    /\ currentPrefix = <<>> /\ store = EmptyStore
    /\ \E name \in FormatNames, max \in 0..MaxDisplayLength :
         label = [pc |-> "call", name |-> name, max |-> max,
                  result |-> [panic |-> FALSE, text |-> <<>>]]

NextFormat == FormatName

SpecFormat == InitFormat /\ [][NextFormat]_vars

\* C22: FormatFileNameForDisplay returns, for every name and every length
\* of 0 or more, a string of at most that many characters: the name
\* unchanged if it fits, and otherwise, if the length leaves room for the
\* base, the start of the base, "..." and the unchanged extension.
FormatFitsDisplayLength ==
    label.pc = "done" =>
        LET ext == Ext(label.name)
            base == TrimSuffix(label.name, ext)
            room == label.max - 3 - Len(ext)
        IN  /\ ~label.result.panic
            /\ Len(label.result.text) <= label.max
            /\ (room >= 0 /\ Len(base) > room) =>
                   label.result.text = SubSeq(base, 1, room) \o Ellipsis \o ext
            /\ (room >= 0 /\ Len(base) <= room) => label.result.text = label.name
            /\ (room < 0 /\ Len(label.name) <= label.max) => label.result.text = label.name

\* the same for lengths of 3 or more
FormatFitsFromThree == label.max >= 3 => FormatFitsDisplayLength

(***************************************************************************)
(* The ObjectsView: navigation, paging and loadObjects.  The handlers run  *)
(* on the UI goroutine, one at a time; loadObjects starts a goroutine that *)
(* reads the fields of the view when it runs, calls the store, and hands   *)
(* its result back to the UI goroutine with fyne.Do.                       *)
(*   view.loads[id]  a goroutine of loadObjects: fetch (started), deliver  *)
(*                   (its callback is queued), done, panic                 *)
(*   view.delivered  the ids of the goroutines whose callback ran          *)
(***************************************************************************)
MaxLoads == 3

\* the goroutine of loadObjects at the go statement
LoadSpawned ==
    [pc |-> "fetch", prefix |-> <<>>, page |-> 0, psize |-> 0, marker |-> <<>>,
     err |-> FALSE, res |-> ListResult(<<>>, NoMarker)]

ResetPagingAndSelection(v) ==
    [v EXCEPT !.currentPage = 1, !.pageMarkers = << <<>> >>,
              !.nextPageMarker = NoMarker, !.selected = {}]

\* ov.loadObjects up to and with the go statement
StartLoad(v) == [v EXCEPT !.loading = TRUE, !.loads = Append(@, LoadSpawned)]

CanLoad == Len(view.loads) < MaxLoads

\* the prev and next buttons are disabled without paging and while the
\* loading indicator is visible
PagingEnabled == pageSize # 0 /\ ~view.loading

NextEnabled == PagingEnabled /\ view.nextPageMarker.some

PrevEnabled == PagingEnabled /\ view.currentPage > 1

SetBucketAndPrefix(prefix) ==
    /\ CanLoad
    /\ currentPrefix' = prefix
    /\ view' = StartLoad(ResetPagingAndSelection(view))

NextTapped ==
    /\ CanLoad /\ NextEnabled
    /\ view' = StartLoad([view EXCEPT !.currentPage = @ + 1])
    /\ UNCHANGED <<store, currentPrefix, resolver, pageSize, pager, batch, jobs, localFiles, label>>

PrevTapped ==
    /\ CanLoad /\ PrevEnabled
    /\ view' = StartLoad([view EXCEPT !.currentPage = @ - 1])
    /\ UNCHANGED <<store, currentPrefix, resolver, pageSize, pager, batch, jobs, localFiles, label>>

\* the page sizes the user submits
PageSizes == {0, 1, 2}

\* pageSizeEntry.OnSubmitted with a number that is not negative
PageSizeSubmitted ==
    /\ CanLoad
    /\ \E ps \in PageSizes \ {pageSize} :
         /\ pageSize' = ps
         /\ view' = StartLoad(ResetPagingAndSelection(view))
    /\ UNCHANGED <<store, currentPrefix, resolver, pager, batch, jobs, localFiles, label>>

\* the marker loadObjects passes for the page shown
MarkerOfPage(v) ==
    IF v.currentPage = 1 THEN <<>>
    ELSE IF v.currentPage <= Len(v.pageMarkers) THEN v.pageMarkers[v.currentPage]
    ELSE <<>>

\* the goroutine of loadObjects: the listing call
LoadCall ==
    /\ \E id \in DOMAIN view.loads :
         /\ view.loads[id].pc = "fetch"
         /\ LET marker == MarkerOfPage(view)
                asked  == [view.loads[id] EXCEPT
                              !.prefix = currentPrefix, !.page = view.currentPage,
                              !.psize = pageSize, !.marker = marker]
                res    == LoadObjectsFetch(store, currentPrefix, marker, pageSize)
            IN  \/ view' = [view EXCEPT !.loads[id] =
                               [asked EXCEPT !.pc = "deliver", !.err = TRUE]]
                \/ view' = [view EXCEPT !.loads[id] =
                               [asked EXCEPT !.pc = IF res.panic THEN "panic" ELSE "deliver",
                                             !.res = res]]
    /\ UNCHANGED <<store, currentPrefix, resolver, pageSize, pager, batch, jobs, localFiles, label>>

\* append(ov.pageMarkers, make([]string, n)...) up to length n, then [n-1] = m
SetPageMarker(markers, n, m) ==
    [i \in 1..Max(Len(markers), n) |->
        IF i = n THEN m ELSE IF i <= Len(markers) THEN markers[i] ELSE <<>>]

\* the callback of loadObjects on the UI goroutine
LoadDone ==
    /\ \E id \in DOMAIN view.loads :
         /\ view.loads[id].pc = "deliver"
         /\ LET ld == view.loads[id]
                v  == [view EXCEPT !.loading = FALSE, !.loads[id].pc = "done",
                                   !.delivered = Append(@, id)]
            IN  IF ld.err
                THEN view' = [v EXCEPT !.objects = <<>>]
                ELSE view' = [v EXCEPT
                        !.objects = ld.res.objects,
                        !.nextPageMarker = ld.res.nextMarker,
                        !.pageMarkers =
                            IF pageSize # 0 /\ ld.res.nextMarker.some
                            THEN SetPageMarker(@, view.currentPage + 1,
                                               ld.res.nextMarker.value)
                            ELSE @]
    /\ UNCHANGED <<store, currentPrefix, resolver, pageSize, pager, batch, jobs, localFiles, label>>

(***************************************************************************)
(* SpecView: a user browsing a bucket.                                     *)
(***************************************************************************)
\* the bucket browsed: d, a, b and c at the root, a and b in d
ViewStore == StoreWith({<<"a">>, <<"b">>, <<"c">>, <<"d", "/", "a">>, <<"d", "/", "b">>})

\* a click on a folder or on a breadcrumb
Navigate ==
    /\ \E prefix \in ListPrefixes \ {currentPrefix} : SetBucketAndPrefix(prefix)
    /\ UNCHANGED <<store, resolver, pageSize, pager, batch, jobs, localFiles, label>>

InitView ==
    /\ resolver = ResolverIdle /\ pager = PagerIdle
    /\ batch = BatchIdle /\ jobs = <<>> /\ localFiles = EmptyStore
    /\ label = LabelIdle
    /\ store = ViewStore
    /\ currentPrefix = <<>>
    /\ pageSize \in PageSizes
    /\ view = StartLoad(ViewIdle)

NextView ==
    \/ Navigate \/ NextTapped \/ PrevTapped \/ PageSizeSubmitted
    \/ LoadCall \/ LoadDone

SpecView == InitView /\ [][NextView]_vars

AllLoadsDone ==
    /\ view.loads # <<>>
    /\ \A id \in DOMAIN view.loads : view.loads[id].pc = "done"

\* C27: once every loadObjects that was started has completed, the listing
\* shown is the result of the latest request, the one for the current
\* prefix and page, and not the result of an earlier one that came later.
ListingIsOfLatestRequest ==
    AllLoadsDone =>
        LET latest == view.loads[Len(view.loads)]
        IN  /\ latest.prefix = currentPrefix /\ latest.page = view.currentPage
            /\ view.objects = IF latest.err THEN <<>> ELSE latest.res.objects

\* the goroutine whose callback ran last
LastDelivered == view.loads[view.delivered[Len(view.delivered)]]

\* C28: with paging, after any sequence of next, previous, page-size
\* changes, navigation and loads that fail or succeed, the page shown is
\* between 1 and the number of markers kept, a page after the first is
\* loaded with the marker returned for the page before it, and Next is
\* enabled only if the last load was of the page shown, succeeded and
\* returned a marker.
PagingStateConsistent ==
    pageSize # 0 =>
        /\ 1 <= view.currentPage /\ view.currentPage <= Len(view.pageMarkers)
        /\ \A id \in DOMAIN view.loads :
             LET ld == view.loads[id]
             IN  (ld.pc # "fetch" /\ ld.psize # 0 /\ ld.page > 1) =>
                    \E j \in DOMAIN view.loads :
                        /\ j # id /\ view.loads[j].pc = "done" /\ ~view.loads[j].err
                        /\ view.loads[j].prefix = ld.prefix
                        /\ view.loads[j].page = ld.page - 1
                        /\ view.loads[j].res.nextMarker = SomeMarker(ld.marker)
        /\ NextEnabled =>
             /\ view.delivered # <<>>
             /\ ~LastDelivered.err
             /\ LastDelivered.prefix = currentPrefix
             /\ LastDelivered.page = view.currentPage
             /\ LastDelivered.res.nextMarker.some

(***************************************************************************)
(* Bulk operations.                                                        *)
(*                                                                         *)
(* The local files handed to an upload.  LocalTree maps a path to what     *)
(* os.Stat reports for it (IsDir, Size) and to the number of bytes         *)
(* ioutil.ReadFile returns for it later (data): a file may have grown      *)
(* between the two.                                                        *)
(***************************************************************************)
LocalTree ==
    (<<"a">> :> [IsDir |-> FALSE, Size |-> 1, data |-> 1])
    @@ (<<"b">> :> [IsDir |-> FALSE, Size |-> 2, data |-> 2])
    @@ (<<"c">> :> [IsDir |-> FALSE, Size |-> 1, data |-> 2])
    @@ (<<"g">> :> [IsDir |-> TRUE, Size |-> 0, data |-> 0])
    @@ (<<"g", "/", "s">> :> [IsDir |-> TRUE, Size |-> 0, data |-> 0])
    @@ (<<"g", "/", "x">> :> [IsDir |-> FALSE, Size |-> 1, data |-> 1])
    @@ (<<"e">> :> [IsDir |-> TRUE, Size |-> 0, data |-> 0])
    @@ (<<"e", "/", "a">> :> [IsDir |-> FALSE, Size |-> 2, data |-> 2])
    @@ (<<"e", "/", "g">> :> [IsDir |-> TRUE, Size |-> 0, data |-> 0])
    @@ (<<"e", "/", "g", "/", "x">> :> [IsDir |-> FALSE, Size |-> 2, data |-> 2])

\* the index of the last "/" of s, 0 if there is none
LastSlash(s) ==
    LET at == {i \in 1..Len(s) : s[i] = "/"}
    IN  IF at = {} THEN 0 ELSE CHOOSE i \in at : \A j \in at : j <= i

\* filepath.Base
Base(path) == SubSeq(path, LastSlash(path) + 1, Len(path))

\* filepath.Rel(path, p) for p at or below path
Rel(path, p) == IF p = path THEN <<".">> ELSE SubSeq(p, Len(path) + 2, Len(p))

\* filepath.Join(prefix, name, rel) with the separators replaced by "/":
\* the empty elements are dropped and the result is cleaned
JoinKey(prefix, name, rel) ==
    LET dir  == TrimSuffix(prefix, <<"/">>)
        head == IF dir = <<>> THEN name ELSE dir \o <<"/">> \o name
    IN  IF rel = <<".">> \/ rel = <<>> THEN head ELSE head \o <<"/">> \o rel

\* the paths filepath.Walk(path, ...) visits, in its order
Walk(path) ==
    SortedKeys({p \in DOMAIN LocalTree : p = path \/ HasPrefix(p, path \o <<"/">>)})

\* the HEAD answer of a store that works
TrueHead(st, key) == IF key \in Keys(st) THEN HeadOK ELSE HeadNoSuchKey

\* findAvailableObjectKey when no store call fails, from round i on
RECURSIVE AvailableObjectKey(_, _, _)
AvailableObjectKey(st, s3Key, i) ==
    LET newKey == ObjectProbeKey(s3Key, i)
    IN  IF ObjectExists(newKey, TrueHead(st, newKey)).exists
        THEN AvailableObjectKey(st, s3Key, i + 1)
        ELSE newKey

\* findAvailableFolderName when no store call fails, from round i on
RECURSIVE AvailableFolderName(_, _, _, _)
AvailableFolderName(st, prefix, baseName, i) ==
    LET newName == FolderProbeName(baseName, i)
        destKeyPrefix == DestKeyPrefix(prefix, newName)
        objects == ListAllObjectsUnderPrefix(st, destKeyPrefix)
        folderObjectExists == ObjectExists(destKeyPrefix, TrueHead(st, destKeyPrefix)).exists
    IN  IF Len(objects) = 0 /\ ~folderObjectExists THEN newName
        ELSE AvailableFolderName(st, prefix, baseName, i + 1)

\* an entry of filesToUpload
UploadFile(localPath, s3Key, size) ==
    [LocalPath |-> localPath, S3Key |-> s3Key, Size |-> size]

\* the callback of filepath.Walk over the first n paths of the walk
RECURSIVE WalkAppend(_, _, _, _, _)
WalkAppend(b, path, prefix, availableFolderName, n) ==
    IF n = 0 THEN b
    ELSE LET before == WalkAppend(b, path, prefix, availableFolderName, n - 1)
             p      == Walk(path)[n]
             s3Key  == JoinKey(prefix, availableFolderName, Rel(path, p))
         IN  IF LocalTree[p].IsDir
             THEN [before EXCEPT !.folders = Append(@, s3Key \o <<"/">>)]
             ELSE [before EXCEPT
                     !.files = Append(@, UploadFile(p, s3Key, LocalTree[p].Size)),
                     !.totalSize = @ + LocalTree[p].Size]

\* scanErrors = append(scanErrors, ...)
ScanError(b) == [b EXCEPT !.scanErrors = @ + 1]

\* startUploadProcess, step 1: the goroutine that scans one local path
UploadScan ==
    /\ batch.kind = "upload" /\ batch.pc = "scan"
    /\ \E path \in batch.scanning :
         LET b == [batch EXCEPT !.scanning = @ \ {path}]
         IN  \/ batch' = ScanError(b)                     \* os.Stat fails
             \/ /\ LocalTree[path].IsDir
                /\ \/ batch' = ScanError(b)               \* findAvailableFolderName fails
                   \/ LET name == AvailableFolderName(store, currentPrefix, Base(path), 0)
                      IN  \/ batch' = WalkAppend(b, path, currentPrefix, name,
                                                 Len(Walk(path)))
                          \/ \E n \in 0..(Len(Walk(path)) - 1) :   \* the walk fails
                               batch' = ScanError(
                                   WalkAppend(b, path, currentPrefix, name, n))
             \/ /\ ~LocalTree[path].IsDir
                /\ \/ batch' = ScanError(b)               \* findAvailableObjectKey fails
                   \/ LET availableKey ==
                              AvailableObjectKey(store, currentPrefix \o Base(path), 0)
                      IN  batch' = [b EXCEPT
                              !.files = Append(@, UploadFile(path, availableKey,
                                                             LocalTree[path].Size)),
                              !.totalSize = @ + LocalTree[path].Size]
    /\ UNCHANGED <<store, currentPrefix, resolver, pageSize, pager, jobs, localFiles, view, label>>

(***************************************************************************)
(* The worker pools.  jobs[i] is an item sent to a channel of the batch:   *)
(*   op      marker, put, get, delete, deleteFolder, copy or copyFolder    *)
(*   name    the name the failure list gets for it                         *)
(*   key     the key of the object (put: destination, copy: source)        *)
(*   path    the local path (put, get)                                     *)
(*   size    its size as the scan saw it                                   *)
(*   pc      queued, run (a worker has it), ..., ok, failed                *)
(*   taken   how often a worker received it                                *)
(*   len     the length of the body being transferred                      *)
(*   off     the read offset into that body                                *)
(*   newKey, counter   the probe loop of copySingleObject                  *)
(*   inner, innerErr   the keys of deleteFolderAndContentsWithProgress     *)
(***************************************************************************)
\* numWorkers of startUploadProcess
NumWorkers == 10

\* how often the SDK may rewind a request body in one batch
MaxRewinds == 1

Job(op, name, key, path, size) ==
    [op |-> op, name |-> name, key |-> key, path |-> path, size |-> size,
     pc |-> "queued", taken |-> 0, len |-> 0, off |-> 0,
     newKey |-> <<>>, counter |-> 0, inner |-> <<>>, innerErr |-> FALSE]

Terminal(j) == j.pc \in {"ok", "failed"}

InProgress(j) == j.pc \notin {"queued", "ok", "failed"}

\* ChanRecv that leaves the item in the channel
ChanRecvPeek(queue) == [item |-> Head(queue), rest |-> queue]

\* x := <-channel
ChanRecv(queue) == [item |-> Head(queue), rest |-> Tail(queue)]

\* a worker of a pool of limit workers receives the next item of the channel
Take(limit) ==
    /\ batch.queue # <<>>
    /\ Cardinality({i \in DOMAIN jobs : InProgress(jobs[i])}) < limit
    /\ LET r == ChanRecv(batch.queue)
       IN  /\ jobs' = [jobs EXCEPT ![r.item] = [@ EXCEPT !.pc = "run", !.taken = @ + 1]]
           /\ batch' = [batch EXCEPT !.queue = r.rest]

\* PoolDone that waits for items that failed
PoolDoneAllSucceeded == batch.queue = <<>> /\ \A i \in DOMAIN jobs : jobs[i].pc = "ok"

\* PoolDone that also returns once an item has failed
PoolDoneOnFailure ==
    \/ batch.failed # <<>>
    \/ batch.queue = <<>> /\ \A i \in DOMAIN jobs : Terminal(jobs[i])

\* wg.Wait() returns: the channel is drained and every worker has left its loop
PoolDone == batch.queue = <<>> /\ \A i \in DOMAIN jobs : Terminal(jobs[i])

\* the worker's item failed: failed = append(failed, name)
Failed(b, name) == [b EXCEPT !.failed = Append(@, name)]

\* ScanFailed that overlooks the errors
ScanFailedIgnored(b) == FALSE

\* len(scanErrors) > 0
ScanFailed(b) == b.scanErrors > 0

FolderJobs(b) == [i \in 1..Len(b.folders) |-> Job("marker", b.folders[i], b.folders[i], <<>>, 0)]

FileJobs(b) ==
    [i \in 1..Len(b.files) |->
        Job("put", Base(b.files[i].LocalPath), b.files[i].S3Key,
            b.files[i].LocalPath, b.files[i].Size)]

\* the indices from + 1 .. from + n, in order
Indices(from, n) == [i \in 1..n |-> from + i]

\* startUploadProcess after scanWg.Wait(): the checks, then the first pool
UploadStart ==
    /\ batch.kind = "upload" /\ batch.pc = "scan" /\ batch.scanning = {}
    /\ IF ScanFailed(batch)
       THEN batch' = [batch EXCEPT !.pc = "aborted"] /\ UNCHANGED jobs
       ELSE IF Len(batch.files) = 0 /\ Len(batch.folders) = 0
       THEN batch' = [batch EXCEPT !.pc = "empty"] /\ UNCHANGED jobs
       ELSE IF Len(batch.folders) > 0
       THEN /\ jobs' = FolderJobs(batch)
            /\ batch' = [batch EXCEPT !.pc = "folders",
                                      !.queue = Indices(0, Len(batch.folders))]
       ELSE /\ jobs' = FileJobs(batch)
            /\ batch' = [batch EXCEPT !.pc = "files",
                                      !.queue = Indices(0, Len(batch.files))]
    /\ UNCHANGED <<store, currentPrefix, resolver, pageSize, pager, localFiles, view, label>>

\* a folder worker receives a key
UploadFolderTake ==
    /\ batch.kind = "upload" /\ batch.pc = "folders"
    /\ Take(NumWorkers)
    /\ UNCHANGED <<store, currentPrefix, resolver, pageSize, pager, localFiles, view, label>>

\* a folder worker: CreateFolder and the bookkeeping of its outcome
UploadCreateFolder ==
    /\ batch.kind = "upload" /\ batch.pc = "folders"
    /\ \E i \in DOMAIN jobs :
         /\ jobs[i].op = "marker" /\ jobs[i].pc = "run"
         /\ LET b == [batch EXCEPT !.issued = @ \cup {"MARKER"}]
            IN  \/ /\ store' = Put(store, jobs[i].key, 0)
                   /\ jobs' = [jobs EXCEPT ![i].pc = "ok"]
                   /\ batch' = b
                \/ /\ jobs' = [jobs EXCEPT ![i].pc = "failed"]
                   /\ batch' = Failed(b, jobs[i].key)
                   /\ UNCHANGED store
    /\ UNCHANGED <<currentPrefix, resolver, pageSize, pager, localFiles, view, label>>

\* uploadWg.Wait() after the folders, then the file pool or the report
UploadFoldersDone ==
    /\ batch.kind = "upload" /\ batch.pc = "folders" /\ PoolDone
    /\ IF Len(batch.files) > 0
       THEN /\ jobs' = jobs \o FileJobs(batch)
            /\ batch' = [batch EXCEPT !.pc = "files",
                                      !.queue = Indices(Len(jobs), Len(batch.files))]
       ELSE batch' = [batch EXCEPT !.pc = "report"] /\ UNCHANGED jobs
    /\ UNCHANGED <<store, currentPrefix, resolver, pageSize, pager, localFiles, view, label>>

\* a file worker receives an entry of filesToUpload
UploadFileTake ==
    /\ batch.kind = "upload" /\ batch.pc = "files"
    /\ Take(NumWorkers)
    /\ UNCHANGED <<store, currentPrefix, resolver, pageSize, pager, localFiles, view, label>>

\* uploadSingleFile: ioutil.ReadFile, and the call of UploadObject if it worked
UploadReadFile ==
    /\ batch.kind = "upload" /\ batch.pc = "files"
    /\ \E i \in DOMAIN jobs :
         /\ jobs[i].op = "put" /\ jobs[i].pc = "run"
         /\ \/ /\ jobs' = [jobs EXCEPT ![i].pc = "failed"]
               /\ batch' = Failed(batch, jobs[i].name)
            \/ /\ jobs' = [jobs EXCEPT ![i].pc = "send", ![i].off = 0,
                                       ![i].len = LocalTree[jobs[i].path].data]
               /\ batch' = [batch EXCEPT !.issued = @ \cup {"PUT"}]
    /\ UNCHANGED <<store, currentPrefix, resolver, pageSize, pager, localFiles, view, label>>

\* ProgressTracker.Read: the SDK reads n bytes of the body
TrackerRead(b, n) == [b EXCEPT !.bytes = @ + n]

\* the SDK reads the next bytes of the request body through the tracker
UploadBodyRead ==
    /\ batch.kind = "upload" /\ batch.pc = "files"
    /\ \E i \in DOMAIN jobs :
         /\ jobs[i].op = "put" /\ jobs[i].pc = "send"
         /\ \E n \in 1..(jobs[i].len - jobs[i].off) :
              /\ jobs' = [jobs EXCEPT ![i].off = @ + n]
              /\ batch' = TrackerRead(batch, n)
    /\ UNCHANGED <<store, currentPrefix, resolver, pageSize, pager, localFiles, view, label>>

\* ProgressTracker.Seek: the SDK rewinds the body it has read (to sign it,
\* or to send it again), the counter keeps what was added
UploadBodySeek ==
    /\ batch.kind = "upload" /\ batch.pc = "files"
    /\ batch.rewinds < MaxRewinds
    /\ \E i \in DOMAIN jobs :
         /\ jobs[i].op = "put" /\ jobs[i].pc = "send" /\ jobs[i].off > 0
         /\ jobs' = [jobs EXCEPT ![i].off = 0]
         /\ batch' = [batch EXCEPT !.rewinds = @ + 1]
    /\ UNCHANGED <<store, currentPrefix, resolver, pageSize, pager, localFiles, view, label>>

\* UploadObject returns: the store took the whole body, or the request failed
UploadPutReturns ==
    /\ batch.kind = "upload" /\ batch.pc = "files"
    /\ \E i \in DOMAIN jobs :
         /\ jobs[i].op = "put" /\ jobs[i].pc = "send"
         /\ \/ /\ jobs[i].off = jobs[i].len
               /\ store' = Put(store, jobs[i].key, jobs[i].len)
               /\ jobs' = [jobs EXCEPT ![i].pc = "ok"]
               /\ UNCHANGED batch
            \/ /\ jobs' = [jobs EXCEPT ![i].pc = "failed"]
               /\ batch' = Failed(batch, jobs[i].name)
               /\ UNCHANGED store
    /\ UNCHANGED <<currentPrefix, resolver, pageSize, pager, localFiles, view, label>>

\* uploadWg.Wait() after the files, and the report
UploadReport ==
    /\ batch.kind = "upload" /\ batch.pc = "files" /\ PoolDone
    /\ batch' = [batch EXCEPT !.pc = "report"]
    /\ UNCHANGED <<store, currentPrefix, resolver, pageSize, pager, jobs, localFiles, view, label>>

\* the orders in which a range over the map of selected ids may yield set S
Orders(S) ==
    {q \in [1..Cardinality(S) -> S] : \A i, j \in 1..Cardinality(S) : i # j => q[i] # q[j]}

(***************************************************************************)
(* startDownloadProcess                                                    *)
(***************************************************************************)
\* numScanWorkers of startDownloadProcess
NumScanWorkers == 5

\* numDownloadWorkers
NumDownloadWorkers == 10

\* the directory the user chose
LocalBasePath == <<"t">>

\* an entry of filesToDownload
DownloadFile(obj, localPath) == [S3Object |-> obj, LocalPath |-> localPath]

\* a scan worker receives the next selected object
ScanTake(limit) ==
    /\ batch.pc = "scan" /\ batch.scanQueue # <<>>
    /\ Cardinality(batch.scanning) < limit
    /\ batch' = [batch EXCEPT !.scanning = @ \cup {Head(batch.scanQueue)},
                              !.scanQueue = Tail(@)]

\* every scan worker has left its loop
ScanDone == batch.pc = "scan" /\ batch.scanQueue = <<>> /\ batch.scanning = {}

\* the loop over folderObjects of the scan of a folder
RECURSIVE AddFolderFiles(_, _, _)
AddFolderFiles(b, obj, folderObjects) ==
    IF folderObjects = <<>> THEN b
    ELSE LET fo == Head(folderObjects)
             relativePath == TrimPrefix(fo.Key, obj.Key)
             localFilePath == JoinKey(LocalBasePath, obj.Name, relativePath)
         IN  AddFolderFiles(
                IF ~fo.IsFolder
                THEN [b EXCEPT !.totalSize = @ + fo.Size,
                               !.files = Append(@, DownloadFile(fo, localFilePath))]
                ELSE b,
                obj, Tail(folderObjects))

DownloadScanTake ==
    /\ batch.kind = "download"
    /\ ScanTake(NumScanWorkers)
    /\ UNCHANGED <<store, currentPrefix, resolver, pageSize, pager, jobs, localFiles, view, label>>

\* a scan worker: the listing of a folder, or the size of a file
DownloadScan ==
    /\ batch.kind = "download" /\ batch.pc = "scan"
    /\ \E obj \in batch.scanning :
         LET b == [batch EXCEPT !.scanning = @ \ {obj}]
         IN  IF obj.IsFolder
             THEN \/ batch' = ScanError(b)
                  \/ batch' = AddFolderFiles(b, obj,
                                  ListAllObjectsUnderPrefix(store, obj.Key))
             ELSE batch' = [b EXCEPT
                     !.totalSize = @ + obj.Size,
                     !.files = Append(@, DownloadFile(obj,
                                   JoinKey(LocalBasePath, obj.Name, <<>>)))]
    /\ UNCHANGED <<store, currentPrefix, resolver, pageSize, pager, jobs, localFiles, view, label>>

DownloadJobs(b) ==
    [i \in 1..Len(b.files) |->
        Job("get", b.files[i].S3Object.Name, b.files[i].S3Object.Key,
            b.files[i].LocalPath, b.files[i].S3Object.Size)]

\* startDownloadProcess after scanWg.Wait()
DownloadStart ==
    /\ batch.kind = "download" /\ ScanDone
    /\ IF ScanFailed(batch)
       THEN batch' = [batch EXCEPT !.pc = "aborted"] /\ UNCHANGED jobs
       ELSE IF Len(batch.files) = 0
       THEN batch' = [batch EXCEPT !.pc = "empty"] /\ UNCHANGED jobs
       ELSE /\ jobs' = DownloadJobs(batch)
            /\ batch' = [batch EXCEPT !.pc = "files",
                                      !.queue = Indices(0, Len(batch.files))]
    /\ UNCHANGED <<store, currentPrefix, resolver, pageSize, pager, localFiles, view, label>>

DownloadTake ==
    /\ batch.kind = "download" /\ batch.pc = "files"
    /\ Take(NumDownloadWorkers)
    /\ UNCHANGED <<store, currentPrefix, resolver, pageSize, pager, localFiles, view, label>>

\* downloadFile up to the copy: os.MkdirAll, os.Create, DownloadObject
DownloadOpen ==
    /\ batch.kind = "download" /\ batch.pc = "files"
    /\ \E i \in DOMAIN jobs :
         /\ jobs[i].op = "get" /\ jobs[i].pc = "run"
         /\ LET fail == [jobs EXCEPT ![i].pc = "failed"]
                dir  == Failed([batch EXCEPT !.issued = @ \cup {"MKDIR"}], jobs[i].name)
                file == Failed([batch EXCEPT !.issued = @ \cup {"MKDIR", "CREATE"}],
                               jobs[i].name)
            IN  \/ jobs' = fail /\ batch' = dir /\ UNCHANGED localFiles
                \/ jobs' = fail /\ batch' = file /\ UNCHANGED localFiles
                \/ /\ jobs' = fail /\ batch' = file
                   /\ localFiles' = Put(localFiles, jobs[i].path, 0)
                \/ /\ jobs[i].key \in Keys(store)
                   /\ jobs' = [jobs EXCEPT ![i].pc = "copy", ![i].off = 0,
                                           ![i].len = store[jobs[i].key]]
                   /\ batch' = [batch EXCEPT !.issued = @ \cup {"MKDIR", "CREATE"}]
                   /\ localFiles' = Put(localFiles, jobs[i].path, 0)
    /\ UNCHANGED <<store, currentPrefix, resolver, pageSize, pager, view, label>>

\* io.Copy: a Read of the body through the tracker and the Write of what it gave
DownloadBodyRead ==
    /\ batch.kind = "download" /\ batch.pc = "files"
    /\ \E i \in DOMAIN jobs :
         /\ jobs[i].op = "get" /\ jobs[i].pc = "copy"
         /\ \E n \in 1..(jobs[i].len - jobs[i].off) :
              \/ /\ jobs' = [jobs EXCEPT ![i].off = @ + n]
                 /\ batch' = TrackerRead(batch, n)
                 /\ localFiles' = Put(localFiles, jobs[i].path, jobs[i].off + n)
              \/ /\ jobs' = [jobs EXCEPT ![i].pc = "failed"]     \* the Write fails
                 /\ batch' = Failed(TrackerRead(batch, n), jobs[i].name)
                 /\ UNCHANGED localFiles
    /\ UNCHANGED <<store, currentPrefix, resolver, pageSize, pager, view, label>>

\* io.Copy returns: the body is at its end, or a Read failed
DownloadCopyReturns ==
    /\ batch.kind = "download" /\ batch.pc = "files"
    /\ \E i \in DOMAIN jobs :
         /\ jobs[i].op = "get" /\ jobs[i].pc = "copy"
         /\ \/ /\ jobs[i].off = jobs[i].len
               /\ jobs' = [jobs EXCEPT ![i].pc = "ok"]
               /\ UNCHANGED batch
            \/ /\ jobs[i].off < jobs[i].len
               /\ jobs' = [jobs EXCEPT ![i].pc = "failed"]
               /\ batch' = Failed(batch, jobs[i].name)
    /\ UNCHANGED <<store, currentPrefix, resolver, pageSize, pager, localFiles, view, label>>

DownloadReport ==
    /\ batch.kind = "download" /\ batch.pc = "files" /\ PoolDone
    /\ batch' = [batch EXCEPT !.pc = "report"]
    /\ UNCHANGED <<store, currentPrefix, resolver, pageSize, pager, jobs, localFiles, view, label>>

NextDownload ==
    \/ DownloadScanTake \/ DownloadScan \/ DownloadStart \/ DownloadTake
    \/ DownloadOpen \/ DownloadBodyRead \/ DownloadCopyReturns \/ DownloadReport

(***************************************************************************)
(* The delete button of GetContent, after the confirmation.                *)
(***************************************************************************)
\* numScanWorkers of the delete handler
NumDeleteScanWorkers == 5

\* numDeleteWorkers
NumDeleteWorkers == 10

\* numWorkers of deleteFolderAndContentsWithProgress
NumFolderDeleteWorkers == 10

DeleteScanTake ==
    /\ batch.kind = "delete"
    /\ ScanTake(NumDeleteScanWorkers)
    /\ UNCHANGED <<store, currentPrefix, resolver, pageSize, pager, jobs, localFiles, view, label>>

\* a scan worker: the keys under a folder, or one for a file
DeleteScan ==
    /\ batch.kind = "delete" /\ batch.pc = "scan"
    /\ \E item \in batch.scanning :
         LET b == [batch EXCEPT !.scanning = @ \ {item}]
         IN  IF item.IsFolder
             THEN \/ batch' = ScanError(b)
                  \/ batch' = [b EXCEPT !.totalItems =
                                  @ + Len(ListAllKeysUnderPrefix(store, item.Key))]
             ELSE batch' = [b EXCEPT !.totalItems = @ + 1]
    /\ UNCHANGED <<store, currentPrefix, resolver, pageSize, pager, jobs, localFiles, view, label>>

\* the objects a range over ov.selectedObjectIDs yields: items[id] of
\* ov.getDisplayedObjects() for every selected id below len(items)
SelectedItems(v) ==
    {v.objects[id + 1] : id \in {i \in v.selected : i < Len(v.objects)}}

DeleteJobs(q) ==
    [i \in 1..Len(q) |->
        Job(IF q[i].IsFolder THEN "deleteFolder" ELSE "delete",
            q[i].Name, q[i].Key, <<>>, q[i].Size)]

\* the delete handler after scanWg.Wait(): the checks, then the second range
\* over the selection, which fills itemsToDeleteChannel
DeleteStart ==
    /\ batch.kind = "delete" /\ ScanDone
    /\ IF ScanFailed(batch)
       THEN batch' = [batch EXCEPT !.pc = "aborted"] /\ UNCHANGED jobs
       ELSE IF batch.totalItems = 0
       THEN batch' = [batch EXCEPT !.pc = "empty"] /\ UNCHANGED jobs
       ELSE \E q \in Orders(SelectedItems(view)) :
              /\ jobs' = DeleteJobs(q)
              /\ batch' = [batch EXCEPT !.pc = "files", !.queue = Indices(0, Len(q))]
    /\ UNCHANGED <<store, currentPrefix, resolver, pageSize, pager, localFiles, view, label>>

DeleteTake ==
    /\ batch.kind = "delete" /\ batch.pc = "files"
    /\ Take(NumDeleteWorkers)
    /\ UNCHANGED <<store, currentPrefix, resolver, pageSize, pager, localFiles, view, label>>

\* a delete worker with a file: DeleteObject, then currentDeletedItems++
DeleteFile ==
    /\ batch.kind = "delete" /\ batch.pc = "files"
    /\ \E i \in DOMAIN jobs :
         /\ jobs[i].op = "delete" /\ jobs[i].pc = "run"
         /\ LET b == [batch EXCEPT !.issued = @ \cup {"DELETE"}, !.deleted = @ + 1]
            IN  \/ /\ store' = Remove(store, jobs[i].key)
                   /\ jobs' = [jobs EXCEPT ![i].pc = "ok"]
                   /\ batch' = b
                \/ /\ jobs' = [jobs EXCEPT ![i].pc = "failed"]
                   /\ batch' = Failed(b, jobs[i].name)
                   /\ UNCHANGED store
    /\ UNCHANGED <<currentPrefix, resolver, pageSize, pager, localFiles, view, label>>

\* s3Prefix of the delete worker
FolderPrefix(key) == IF HasSuffix(key, <<"/">>) THEN key ELSE key \o <<"/">>

\* deleteFolderAndContentsWithProgress: the listing and keysToDelete
DeleteFolderList ==
    /\ batch.kind = "delete" /\ batch.pc = "files"
    /\ \E i \in DOMAIN jobs :
         /\ jobs[i].op = "deleteFolder" /\ jobs[i].pc = "run"
         /\ \/ /\ jobs' = [jobs EXCEPT ![i].pc = "failed"]
               /\ batch' = Failed(batch, jobs[i].name)
            \/ LET prefix == FolderPrefix(jobs[i].key)
                   keysToDelete == Append(ListAllKeysUnderPrefix(store, prefix), prefix)
               IN  /\ jobs' = [jobs EXCEPT
                          ![i].pc = "inner",
                          ![i].inner = [k \in 1..Len(keysToDelete) |->
                                           [key |-> keysToDelete[k], pc |-> "queued"]]]
                   /\ UNCHANGED batch
    /\ UNCHANGED <<store, currentPrefix, resolver, pageSize, pager, localFiles, view, label>>

\* a worker of the folder's own pool receives the next key
DeleteFolderTake ==
    /\ batch.kind = "delete" /\ batch.pc = "files"
    /\ \E i \in DOMAIN jobs :
         /\ jobs[i].op = "deleteFolder" /\ jobs[i].pc = "inner"
         /\ Cardinality({k \in DOMAIN jobs[i].inner : jobs[i].inner[k].pc = "run"})
               < NumFolderDeleteWorkers
         /\ \E k \in DOMAIN jobs[i].inner :
              /\ jobs[i].inner[k].pc = "queued"
              /\ \A h \in 1..(k - 1) : jobs[i].inner[h].pc # "queued"
              /\ jobs' = [jobs EXCEPT ![i].inner[k].pc = "run"]
    /\ UNCHANGED <<store, currentPrefix, resolver, pageSize, pager, batch, localFiles, view, label>>

\* a worker of the folder's pool: DeleteObject of one key
DeleteFolderKey ==
    /\ batch.kind = "delete" /\ batch.pc = "files"
    /\ \E i \in DOMAIN jobs :
         /\ jobs[i].op = "deleteFolder" /\ jobs[i].pc = "inner"
         /\ \E k \in DOMAIN jobs[i].inner :
              /\ jobs[i].inner[k].pc = "run"
              /\ \/ /\ store' = Remove(store, jobs[i].inner[k].key)
                    /\ jobs' = [jobs EXCEPT ![i].inner[k].pc = "ok"]
                    /\ batch' = [batch EXCEPT !.issued = @ \cup {"DELETE"},
                                              !.deleted = @ + 1]
                 \/ /\ jobs' = [jobs EXCEPT ![i].inner[k].pc = "failed",
                                            ![i].innerErr = TRUE]
                    /\ batch' = [batch EXCEPT !.issued = @ \cup {"DELETE"}]
                    /\ UNCHANGED store
    /\ UNCHANGED <<currentPrefix, resolver, pageSize, pager, localFiles, view, label>>

\* DeleteFolderReturns that returns with the first failed key
DeleteFolderReturnsOnFirstError ==
    /\ batch.kind = "delete" /\ batch.pc = "files"
    /\ \E i \in DOMAIN jobs :
         /\ jobs[i].op = "deleteFolder" /\ jobs[i].pc = "inner"
         /\ \/ jobs[i].innerErr
            \/ \A k \in DOMAIN jobs[i].inner : jobs[i].inner[k].pc \in {"ok", "failed"}
         /\ IF jobs[i].innerErr
            THEN /\ jobs' = [jobs EXCEPT ![i].pc = "failed"]
                 /\ batch' = Failed(batch, jobs[i].name)
            ELSE /\ jobs' = [jobs EXCEPT ![i].pc = "ok"]
                 /\ UNCHANGED batch
    /\ UNCHANGED <<store, currentPrefix, resolver, pageSize, pager, localFiles, view, label>>

\* deleteFolderAndContentsWithProgress returns after wg.Wait()
DeleteFolderReturns ==
    /\ batch.kind = "delete" /\ batch.pc = "files"
    /\ \E i \in DOMAIN jobs :
         /\ jobs[i].op = "deleteFolder" /\ jobs[i].pc = "inner"
         /\ \A k \in DOMAIN jobs[i].inner : jobs[i].inner[k].pc \in {"ok", "failed"}
         /\ IF jobs[i].innerErr
            THEN /\ jobs' = [jobs EXCEPT ![i].pc = "failed"]
                 /\ batch' = Failed(batch, jobs[i].name)
            ELSE /\ jobs' = [jobs EXCEPT ![i].pc = "ok"]
                 /\ UNCHANGED batch
    /\ UNCHANGED <<store, currentPrefix, resolver, pageSize, pager, localFiles, view, label>>

DeleteReport ==
    /\ batch.kind = "delete" /\ batch.pc = "files" /\ PoolDone
    /\ batch' = [batch EXCEPT !.pc = "report"]
    /\ UNCHANGED <<store, currentPrefix, resolver, pageSize, pager, jobs, localFiles, view, label>>

NextDelete ==
    \/ DeleteScanTake \/ DeleteScan \/ DeleteStart \/ DeleteTake \/ DeleteFile
    \/ DeleteFolderList \/ DeleteFolderTake \/ DeleteFolderKey
    \/ DeleteFolderReturns \/ DeleteReport

(***************************************************************************)
(* pasteS3Objects: one goroutine for each copied object.                   *)
(***************************************************************************)
\* the goroutine of an object, started
PasteJob(obj, prefix) ==
    [Job(IF obj.IsFolder THEN "copyFolder" ELSE "copy", obj.Name, obj.Key, <<>>, obj.Size)
        EXCEPT !.pc = "head", !.taken = 1, !.newKey = prefix \o obj.Name, !.counter = 1]

\* a HEAD request the store fails
PasteHeadFault == HeadErr(500, <<"7", "a">>, CodeInternal)

\* copySingleObject: one round of the loop, ObjectExists and what follows it
PasteHead ==
    /\ batch.kind = "paste" /\ batch.pc = "files"
    /\ \E i \in DOMAIN jobs :
         /\ jobs[i].op = "copy" /\ jobs[i].pc = "head"
         /\ \E head \in {TrueHead(store, jobs[i].newKey), PasteHeadFault} :
              LET res == ObjectExists(jobs[i].newKey, head)
                  ext == Ext(jobs[i].name)
                  nameWithoutExt == TrimSuffix(jobs[i].name, ext)
              IN  IF res.err
                  THEN /\ jobs' = [jobs EXCEPT ![i].pc = "failed"]
                       /\ batch' = Failed(batch, jobs[i].name)
                  ELSE IF ~res.exists
                  THEN /\ jobs' = [jobs EXCEPT ![i].pc = "copy"]
                       /\ UNCHANGED batch
                  ELSE /\ jobs' = [jobs EXCEPT
                              ![i].newKey = currentPrefix \o
                                    NumberedName(nameWithoutExt, jobs[i].counter, ext),
                              ![i].counter = @ + 1]
                       /\ UNCHANGED batch
    /\ UNCHANGED <<store, currentPrefix, resolver, pageSize, pager, localFiles, view, label>>

\* S3Client.CopyObject on the store: the source must exist
CopyObject(st, sourceKey, targetKey) == Put(st, targetKey, st[sourceKey])

\* copySingleObject: CopyObject to the key the loop ended with
PasteCopy ==
    /\ batch.kind = "paste" /\ batch.pc = "files"
    /\ \E i \in DOMAIN jobs :
         /\ jobs[i].op = "copy" /\ jobs[i].pc = "copy"
         /\ \/ /\ jobs[i].key \in Keys(store)
               /\ store' = CopyObject(store, jobs[i].key, jobs[i].newKey)
               /\ jobs' = [jobs EXCEPT ![i].pc = "ok"]
               /\ batch' = [batch EXCEPT !.successCount = @ + 1]
            \/ /\ jobs' = [jobs EXCEPT ![i].pc = "failed"]
               /\ batch' = Failed(batch, jobs[i].name)
               /\ UNCHANGED store
    /\ UNCHANGED <<currentPrefix, resolver, pageSize, pager, localFiles, view, label>>

\* copyFolderRecursive: findAvailableFolderName
PasteFolderResolve ==
    /\ batch.kind = "paste" /\ batch.pc = "files"
    /\ \E i \in DOMAIN jobs :
         /\ jobs[i].op = "copyFolder" /\ jobs[i].pc = "head"
         /\ \/ /\ jobs' = [jobs EXCEPT ![i].pc = "failed"]
               /\ batch' = Failed(batch, jobs[i].name)
            \/ LET originalFolderName == TrimSuffix(jobs[i].name, <<"/">>)
                   availableName ==
                       AvailableFolderName(store, currentPrefix, originalFolderName, 0)
               IN  /\ jobs' = [jobs EXCEPT
                          ![i].pc = "list",
                          ![i].newKey = currentPrefix \o availableName \o <<"/">>]
                   /\ UNCHANGED batch
    /\ UNCHANGED <<store, currentPrefix, resolver, pageSize, pager, localFiles, view, label>>

\* copyFolderRecursive: the listing of the source folder
PasteFolderList ==
    /\ batch.kind = "paste" /\ batch.pc = "files"
    /\ \E i \in DOMAIN jobs :
         /\ jobs[i].op = "copyFolder" /\ jobs[i].pc = "list"
         /\ \/ /\ jobs' = [jobs EXCEPT ![i].pc = "failed"]
               /\ batch' = Failed(batch, jobs[i].name)
            \/ LET objects == ListAllObjectsUnderPrefix(store, jobs[i].key)
               IN  /\ jobs' = [jobs EXCEPT
                          ![i].pc = "copy",
                          ![i].inner = [k \in 1..Len(objects) |->
                                           [key |-> objects[k].Key, pc |-> "queued"]]]
                   /\ UNCHANGED batch
    /\ UNCHANGED <<store, currentPrefix, resolver, pageSize, pager, localFiles, view, label>>

\* copyFolderRecursive: the loop over the listed objects, one CopyObject a
\* step, and the return of nil after the last
PasteFolderCopy ==
    /\ batch.kind = "paste" /\ batch.pc = "files"
    /\ \E i \in DOMAIN jobs :
         /\ jobs[i].op = "copyFolder" /\ jobs[i].pc = "copy"
         /\ LET todo == {k \in DOMAIN jobs[i].inner : jobs[i].inner[k].pc = "queued"}
            IN  IF todo = {}
                THEN /\ jobs' = [jobs EXCEPT ![i].pc = "ok"]
                     /\ batch' = [batch EXCEPT !.successCount = @ + 1]
                     /\ UNCHANGED store
                ELSE LET k == CHOOSE n \in todo : \A m \in todo : n <= m
                         objKey == jobs[i].inner[k].key
                         relativePath == TrimPrefix(objKey, jobs[i].key)
                         targetKey == jobs[i].newKey \o relativePath
                     IN  \/ /\ objKey \in Keys(store)
                            /\ store' = CopyObject(store, objKey, targetKey)
                            /\ jobs' = [jobs EXCEPT ![i].inner[k].pc = "ok"]
                            /\ UNCHANGED batch
                         \/ /\ jobs' = [jobs EXCEPT ![i].inner[k].pc = "failed"]
                            /\ UNCHANGED <<store, batch>>
    /\ UNCHANGED <<currentPrefix, resolver, pageSize, pager, localFiles, view, label>>

\* wg.Wait() of pasteS3Objects, and the report
PasteReport ==
    /\ batch.kind = "paste" /\ batch.pc = "files"
    /\ \A i \in DOMAIN jobs : Terminal(jobs[i])
    /\ batch' = [batch EXCEPT !.pc = "report"]
    /\ UNCHANGED <<store, currentPrefix, resolver, pageSize, pager, jobs, localFiles, view, label>>

NextPaste ==
    \/ PasteHead \/ PasteCopy \/ PasteFolderResolve \/ PasteFolderList
    \/ PasteFolderCopy \/ PasteReport

\* the bucket of the pastes: the objects were copied in d/, the paste is at the root
PasteStore ==
    (<<"a">> :> 1) @@ (<<"d", "/", "a">> :> 1) @@ (<<"d", "/", "a", "(", "1", ")">> :> 2)
    @@ (<<"d", "/", "g", "/", "x">> :> 1) @@ (<<"d", "/", "g", "/", "s", "/">> :> 0)
    @@ (<<"d", "/", "g", "/", "s", "/", "y">> :> 1)

PastePrefix == <<"d", "/">>

\* the copied objects, by name
PasteClipboards ==
    {{<<"a">>}, {<<"a">>, <<"a", "(", "1", ")">>}, {<<"g">>}, {<<"a">>, <<"g">>}}

InitPaste ==
    /\ currentPrefix = <<>>
    /\ view = ViewIdle
    /\ store = PasteStore
    /\ \E names \in PasteClipboards :
         LET objectsToCopy == SelectSeq(ListAllObjectsUnderPrefix(store, PastePrefix),
                                        LAMBDA o : o.Name \in names)
         IN  /\ batch = [BatchIdle EXCEPT
                            !.kind = "paste", !.pc = "files",
                            !.selected = {objectsToCopy[i] : i \in 1..Len(objectsToCopy)}]
             /\ jobs = [i \in 1..Len(objectsToCopy) |->
                           PasteJob(objectsToCopy[i], currentPrefix)]
    /\ localFiles = EmptyStore

\* the bucket of the downloads and deletions
BrowseStore ==
    (<<"a">> :> 1) @@ (<<"f", "/">> :> 0) @@ (<<"f", "/", "x">> :> 2)
    @@ (<<"f", "/", "s", "/", "y">> :> 1) @@ (<<"e", "/", "s", "/", "y">> :> 1)

\* the selections, by the names of the objects shown
BrowseSelections == {{<<"a">>}, {<<"f">>}, {<<"a">>, <<"f">>}, {<<"e">>}}

\* ov.getDisplayedObjects() with every object listed
Displayed(st, prefix) ==
    LET objs == ListAllObjectsUnderPrefix(st, prefix)
    IN  {objs[i] : i \in 1..Len(objs)}

\* a download or a deletion with its channel of objects to scan filled
InitBrowse(kind) ==
    /\ currentPrefix = <<>>
    /\ store = BrowseStore
    /\ \E names \in BrowseSelections :
         LET objects == ListAllObjectsUnderPrefix(store, currentPrefix)
             ids == {i - 1 : i \in {n \in 1..Len(objects) : objects[n].Name \in names}}
             shown == [ViewIdle EXCEPT !.objects = objects, !.selected = ids]
             sel == SelectedItems(shown)
         IN  /\ view = shown
             /\ \E q \in Orders(sel) :
                   batch = [BatchIdle EXCEPT !.kind = kind, !.pc = "scan",
                                             !.selected = sel, !.scanQueue = q]
    /\ jobs = <<>>
    /\ localFiles = EmptyStore

InitDownload == InitBrowse("download")

InitDelete == InitBrowse("delete")

(***************************************************************************)
(* SpecBatch: one bulk operation.                                          *)
(***************************************************************************)
\* the sets of local paths dropped on the window
UploadPathSets ==
    {{}, {<<"a">>}, {<<"b">>}, {<<"c">>}, {<<"g">>}, {<<"a">>, <<"g">>},
     {<<"a">>, <<"b">>, <<"c">>}}

\* the buckets an upload meets
UploadStores == {EmptyStore, StoreWith({<<"a">>, <<"g", "/">>})}

InitUpload ==
    /\ currentPrefix = <<>>
    /\ view = ViewIdle
    /\ store \in UploadStores
    /\ \E ps \in UploadPathSets :
         batch = [BatchIdle EXCEPT !.kind = "upload", !.pc = "scan",
                                   !.paths = ps, !.scanning = ps]
    /\ jobs = <<>>
    /\ localFiles = EmptyStore

InitBatch ==
    /\ resolver = ResolverIdle /\ pageSize = 0 /\ pager = PagerIdle
    /\ label = LabelIdle
    /\ (InitUpload \/ InitDownload \/ InitDelete \/ InitPaste)

NextUpload ==
    \/ UploadScan \/ UploadStart
    \/ UploadFolderTake \/ UploadCreateFolder \/ UploadFoldersDone
    \/ UploadFileTake \/ UploadReadFile \/ UploadBodyRead \/ UploadBodySeek
    \/ UploadPutReturns \/ UploadReport

NextBatch == NextUpload \/ NextDownload \/ NextDelete \/ NextPaste

SpecBatch == InitBatch /\ [][NextBatch]_vars /\ WF_vars(NextBatch)

(***************************************************************************)
(* Properties of the bulk operations (SpecBatch).                          *)
(***************************************************************************)
Transfer == batch.kind \in {"upload", "download"}

AtReport == batch.pc = "report"

JobsAt(pc) == {i \in DOMAIN jobs : jobs[i].pc = pc}

\* the sum of f over the indices in S
RECURSIVE SumOver(_, _)
SumOver(S, f) ==
    IF S = {} THEN 0
    ELSE LET i == CHOOSE x \in S : TRUE IN f[i] + SumOver(S \ {i}, f)

\* how often name occurs in the failure list
Occurrences(name) == Cardinality({k \in 1..Len(batch.failed) : batch.failed[k] = name})

\* the items the batch has to hand to its workers
ItemCount ==
    CASE batch.kind = "upload" -> Len(batch.folders) + Len(batch.files)
      [] batch.kind = "download" -> Len(batch.files)
      [] OTHER -> Cardinality(batch.selected)

\* C1: when an upload or download batch has returned, the byte counter is
\* the sum of the sizes (the bytes of the body transferred) of the items
\* that succeeded; the bytes of an item that failed are not in it.
TransferredIsSumOfSucceeded ==
    (Transfer /\ AtReport) =>
        batch.bytes = SumOver(JobsAt("ok"), [i \in DOMAIN jobs |-> jobs[i].len])

\* C2: in an upload or download batch every queued item is received by a
\* worker exactly once, and when the batch returns the failure list holds
\* exactly the items that failed, each once: failures + successes = N.
EveryItemTakenOnce ==
    Transfer =>
      /\ \A i \in DOMAIN jobs :
           /\ jobs[i].taken <= 1
           /\ (jobs[i].taken = 0) = (jobs[i].pc = "queued")
           /\ Cardinality({k \in 1..Len(batch.queue) : batch.queue[k] = i})
                 = (IF jobs[i].pc = "queued" THEN 1 ELSE 0)
      /\ Len(batch.failed) = Cardinality(JobsAt("failed"))
      /\ \A i \in JobsAt("failed") :
           Occurrences(jobs[i].name)
              = Cardinality({h \in JobsAt("failed") : jobs[h].name = jobs[i].name})
      /\ AtReport =>
           /\ Len(jobs) = ItemCount
           /\ \A i \in DOMAIN jobs : jobs[i].taken = 1 /\ Terminal(jobs[i])
           /\ Len(batch.failed) + Cardinality(JobsAt("ok")) = ItemCount

\* an upload of three files has returned with the second failed
SecondOfThreeUploadsFailed ==
    /\ batch.kind = "upload" /\ AtReport
    /\ Len(jobs) = 3
    /\ jobs[1].pc = "ok" /\ jobs[2].pc = "failed" /\ jobs[3].pc = "ok"
    /\ Len(batch.failed) = 1

\* every item of the batch was handed out and has ended
AllAttempted ==
    /\ Len(jobs) = ItemCount
    /\ \A i \in DOMAIN jobs :
         /\ jobs[i].taken = 1 /\ Terminal(jobs[i])
         /\ \A k \in DOMAIN jobs[i].inner : jobs[i].inner[k].pc \in {"ok", "failed"}

\* C3: a failed item never aborts an upload, download, delete or paste
\* batch: the batch reports only after every item was attempted, and once
\* an item has failed the batch still reaches its report.
FailureNeverAborts ==
    /\ [](AtReport => AllAttempted)
    /\ (batch.failed # <<>>) ~> AtReport

\* a deletion has reported with one item failed and another deleted after it
DeletedAfterFailure ==
    /\ batch.kind = "delete" /\ AtReport
    /\ Len(jobs) = 2
    /\ jobs[1].pc = "failed" /\ jobs[2].pc = "ok"
    /\ jobs[2].key \notin Keys(store)

\* C4: in an upload or download batch 0 <= transferredBytes <= totalBytes
\* always, transferredBytes never decreases, and it equals totalBytes when
\* every item has succeeded.
ProgressWithinTotal ==
    /\ [](Transfer => /\ 0 <= batch.bytes
                      /\ batch.bytes <= batch.totalSize
                      /\ (AtReport /\ JobsAt("failed") = {})
                            => batch.bytes = batch.totalSize)
    /\ [][batch'.bytes >= batch.bytes]_vars

\* C5: in upload, download and delete batches nothing is mutated while a
\* scan worker runs, and nothing at all when the scan reported an error.
NoMutationBeforeScanEnds ==
    (batch.kind \in {"upload", "download", "delete"}
        /\ (batch.pc \in {"scan", "aborted"} \/ batch.scanErrors > 0))
    => /\ batch.issued = {}
       /\ jobs = <<>>
       /\ localFiles = EmptyStore
       /\ store \in UploadStores \cup {BrowseStore}

\* a download was given up after one scan worker failed and another listed a file
AbortedAfterScanError ==
    /\ batch.kind = "download" /\ batch.pc = "aborted"
    /\ batch.scanErrors > 0 /\ Len(batch.files) > 0

\* C6: a paste of a single object never overwrites: whenever CopyObject
\* succeeds, its destination key was not in the bucket.
PasteNeverOverwrites ==
    [][\A i \in DOMAIN jobs :
          (/\ batch.kind = "paste"
           /\ jobs[i].op = "copy" /\ jobs[i].pc = "copy"
           /\ jobs'[i].pc = "ok")
          => jobs[i].newKey \notin Keys(store)]_vars

\* the keys a download of the selection has to fetch: a selected file, and
\* below a selected folder every object that is not an empty "/" marker
DownloadExpansion ==
    {k \in Keys(store) : \E o \in batch.selected :
        IF o.IsFolder
        THEN HasPrefix(k, o.Key) /\ ~(HasSuffix(k, <<"/">>) /\ store[k] = 0)
        ELSE k = o.Key}

\* C15: the expansion of a folder for a download holds every object below
\* the folder key that is not a marker, at every depth, each once, and the
\* total of the batch is the sum of their sizes.
DownloadExpandsEveryDepth ==
    (batch.kind = "download" /\ batch.pc \in {"files", "report", "empty"}) =>
        /\ \A k \in DownloadExpansion :
             Cardinality({i \in 1..Len(batch.files) : batch.files[i].S3Object.Key = k}) = 1
        /\ batch.totalSize = SumOver(DownloadExpansion, store)

\* C16: a folder copy that met no failure leaves, for every object below
\* the source folder at every depth, an object with the same content at the
\* same relative path below the new folder.
FolderCopyMirrorsEveryDepth ==
    \A i \in DOMAIN jobs :
        (/\ batch.kind = "paste" /\ jobs[i].op = "copyFolder" /\ jobs[i].pc = "ok"
         /\ \A k \in DOMAIN jobs[i].inner : jobs[i].inner[k].pc = "ok") =>
            \A K \in Keys(store) :
                HasPrefix(K, jobs[i].key) =>
                    LET targetKey == jobs[i].newKey \o TrimPrefix(K, jobs[i].key)
                    IN  targetKey \in Keys(store) /\ store[targetKey] = store[K]

\* C17: when a paste reports, a folder of which a constituent copy failed
\* is in the failure list, and an empty failure list means that every
\* constituent copy of every item succeeded.
PasteFailuresComplete ==
    (batch.kind = "paste" /\ AtReport) =>
        /\ \A i \in DOMAIN jobs :
             (jobs[i].op = "copyFolder"
                 /\ \E k \in DOMAIN jobs[i].inner : jobs[i].inner[k].pc = "failed")
               => Occurrences(jobs[i].name) >= 1
        /\ batch.failed = <<>> =>
             \A i \in DOMAIN jobs : /\ jobs[i].pc = "ok"
                                    /\ \A k \in DOMAIN jobs[i].inner : jobs[i].inner[k].pc = "ok"

\* C18: once the deletion of a folder has returned without a failed DELETE,
\* no key that starts with the folder key is left in the bucket, the
\* zero-byte marker under the folder key itself included.
FolderDeleteLeavesNothing ==
    \A i \in DOMAIN jobs :
        (batch.kind = "delete" /\ jobs[i].op = "deleteFolder" /\ jobs[i].pc = "ok") =>
            \A k \in Keys(store) : ~HasPrefix(k, FolderPrefix(jobs[i].key))

\* the folder f of the bucket, with its marker, f/x and f/s/y, is gone
MarkedFolderGone ==
    /\ batch.kind = "delete" /\ AtReport
    /\ \E i \in DOMAIN jobs :
         /\ jobs[i].key = <<"f", "/">> /\ jobs[i].pc = "ok"
         /\ Len(jobs[i].inner) = 4
    /\ <<"f", "/">> \in Keys(BrowseStore)
    /\ \A k \in Keys(store) : ~HasPrefix(k, <<"f", "/">>)

\* C19: the deletion of a folder attempts every key of the folder even
\* after the DELETE of another key has failed, and the folder is in the
\* failure list exactly when its listing failed or a DELETE of one of its
\* keys failed.
FolderDeleteIsBestEffort ==
    \A i \in DOMAIN jobs :
        (batch.kind = "delete" /\ jobs[i].op = "deleteFolder" /\ Terminal(jobs[i])) =>
            LET listingFailed == jobs[i].inner = <<>>
                deleteFailed  == \E k \in DOMAIN jobs[i].inner : jobs[i].inner[k].pc = "failed"
            IN  /\ \A k \in DOMAIN jobs[i].inner : jobs[i].inner[k].pc \in {"ok", "failed"}
                /\ (jobs[i].pc = "failed") <=> (listingFailed \/ deleteFailed)
                /\ Occurrences(jobs[i].name) = IF listingFailed \/ deleteFailed THEN 1 ELSE 0

\* the first key of a folder failed and the keys after it were deleted
KeysDeletedAfterFailedKey ==
    /\ batch.kind = "delete" /\ AtReport
    /\ \E i \in DOMAIN jobs :
         /\ jobs[i].op = "deleteFolder" /\ jobs[i].pc = "failed"
         /\ Len(jobs[i].inner) = 4
         /\ jobs[i].inner[1].pc = "failed"
         /\ \A k \in 2..4 : jobs[i].inner[k].pc = "ok"

\* the batch has returned: after its report, or after the message that the
\* scan failed or found nothing
Returned == batch.pc \in {"report", "aborted", "empty"}

\* C21: every batch that was started returns, whether or not items failed:
\* the scan and the transfer workers drain their channels and leave, and the
\* report is produced once, nothing of the batch running after it.
BatchRunsToCompletion ==
    /\ <>Returned
    /\ [](Returned => /\ batch.scanQueue = <<>> /\ batch.scanning = {}
                      /\ batch.queue = <<>>
                      /\ \A i \in DOMAIN jobs : Terminal(jobs[i]))
    /\ [][~Returned]_vars

\* a download of two files has reported one of them as failed
DownloadReportedOneFailure ==
    /\ batch.kind = "download" /\ AtReport
    /\ Len(jobs) = 2 /\ Len(batch.failed) = 1
    /\ \E i \in DOMAIN jobs : jobs[i].pc = "ok"

\* the DELETE calls of the batch that have succeeded
SucceededDeletes ==
    Cardinality({i \in DOMAIN jobs : jobs[i].op = "delete" /\ jobs[i].pc = "ok"})
    + SumOver({i \in DOMAIN jobs : jobs[i].op = "deleteFolder"},
              [i \in DOMAIN jobs |->
                  Cardinality({k \in DOMAIN jobs[i].inner : jobs[i].inner[k].pc = "ok"})])

\* C26: during a deletion the progress counter never exceeds the total the
\* scan counted, and it is the number of DELETE calls that have succeeded.
DeleteProgressCountsSuccesses ==
    batch.kind = "delete" =>
        /\ batch.deleted <= batch.totalItems \/ batch.pc = "scan"
        /\ batch.deleted = SucceededDeletes

(***************************************************************************)
(* SpecSameName: one upload of two local items with the same base name.    *)
(***************************************************************************)
\* the local paths handed to startUploadProcess together
SameNamePathSets ==
    {{<<"a">>, <<"e", "/", "a">>}, {<<"g">>, <<"e", "/", "g">>}}

InitSameName ==
    /\ resolver = ResolverIdle /\ pageSize = 0 /\ pager = PagerIdle
    /\ view = ViewIdle /\ label = LabelIdle
    /\ currentPrefix = <<>>
    /\ store \in UploadStores
    /\ \E ps \in SameNamePathSets :
         batch = [BatchIdle EXCEPT !.kind = "upload", !.pc = "scan",
                                   !.paths = ps, !.scanning = ps]
    /\ jobs = <<>>
    /\ localFiles = EmptyStore

SpecSameName == InitSameName /\ [][NextUpload]_vars

\* C23: the items of one upload get destination keys that differ from one
\* another, two files of the same base name or two folders of the same name
\* included, whatever the order of the scan goroutines.
UploadKeysDistinct ==
    batch.kind = "upload" =>
        /\ \A i, j \in 1..Len(batch.files) :
             i # j => batch.files[i].S3Key # batch.files[j].S3Key
        /\ \A i, j \in 1..Len(batch.folders) :
             i # j => batch.folders[i] # batch.folders[j]

(***************************************************************************)
(* SpecSelect: a deletion during which the user clicks on list items.      *)
(***************************************************************************)
\* handleItemClick with the primary button, plain or with Ctrl, while the
\* deletion scans
ItemTapped ==
    /\ batch.kind = "delete" /\ batch.pc = "scan"
    /\ \E id \in 0..(Len(view.objects) - 1), ctrl \in BOOLEAN :
         view' = [view EXCEPT !.selected =
                     IF ctrl THEN (IF id \in @ THEN @ \ {id} ELSE @ \cup {id})
                     ELSE IF @ = {id} THEN {} ELSE {id}]
    /\ UNCHANGED <<store, currentPrefix, resolver, pageSize, pager, batch, jobs, localFiles, label>>

InitSelect ==
    /\ resolver = ResolverIdle /\ pageSize = 0 /\ pager = PagerIdle
    /\ label = LabelIdle
    /\ InitDelete

NextSelect == NextDelete \/ ItemTapped

SpecSelect == InitSelect /\ [][NextSelect]_vars

\* C25: a deletion deletes exactly the entries that were selected when it
\* was confirmed: the entries handed to the delete workers are the entries
\* the scan counted, whatever happens to the selection meanwhile.
DeletesWhatWasSelected ==
    (batch.kind = "delete" /\ batch.pc \in {"files", "report"}) =>
        {jobs[i].key : i \in DOMAIN jobs} = {o.Key : o \in batch.selected}

(***************************************************************************)
(* SpecNavigate: a paste during which the user navigates.                  *)
(***************************************************************************)
\* the bucket: a and the folder g at the root were copied, d/ is shown
NavigateStore == StoreWith({<<"a">>, <<"g", "/", "x">>, <<"d", "/", "a">>})

\* ov.currentPrefix when the paste is started
NavigateFrom == <<"d", "/">>

InitNavigate ==
    /\ resolver = ResolverIdle /\ pageSize = 0 /\ pager = PagerIdle
    /\ label = LabelIdle /\ view = ViewIdle
    /\ currentPrefix = NavigateFrom
    /\ store = NavigateStore
    /\ LET objectsToCopy == ListAllObjectsUnderPrefix(store, <<>>)
           copied == SelectSeq(objectsToCopy, LAMBDA o : o.Name \in {<<"a">>, <<"g">>})
       IN  /\ batch = [BatchIdle EXCEPT
                          !.kind = "paste", !.pc = "files",
                          !.selected = {copied[i] : i \in 1..Len(copied)}]
           /\ jobs = [i \in 1..Len(copied) |-> PasteJob(copied[i], currentPrefix)]
    /\ localFiles = EmptyStore

NextNavigate == NextPaste \/ Navigate \/ LoadCall \/ LoadDone

SpecNavigate == InitNavigate /\ [][NextNavigate]_vars

\* C24: the prefix a batch works on is the one that was current when it
\* was started: if the user navigates while it runs, every key it probes
\* and every key it writes is still below that prefix.
BatchKeepsItsPrefix ==
    batch.kind = "paste" =>
        /\ \A i \in DOMAIN jobs : HasPrefix(jobs[i].newKey, NavigateFrom)
        /\ \A k \in Keys(store) \ Keys(NavigateStore) : HasPrefix(k, NavigateFrom)

(***************************************************************************)
(* SpecPool: the deletion of a file and of a folder of nine objects.       *)
(***************************************************************************)
\* the bucket: the file a and the folder g with the objects g/0 .. g/8
PoolStore ==
    (<<"a">> :> 1) @@ [k \in {<<"g", "/", Digits[n + 1]>> : n \in 0..8} |-> 1]

InitPool ==
    /\ resolver = ResolverIdle
    /\ pager = PagerIdle
    /\ label = LabelIdle
    /\ pageSize = 0
    /\ currentPrefix = <<>>
    /\ store = PoolStore
    /\ view = [ViewIdle EXCEPT !.objects = ListAllObjectsUnderPrefix(store, currentPrefix),
                               !.selected = {0, 1}]
    /\ \E q \in Orders(Displayed(store, currentPrefix)) :
         batch = [BatchIdle EXCEPT !.kind = "delete", !.pc = "scan",
                                   !.selected = Displayed(store, currentPrefix),
                                   !.scanQueue = q]
    /\ jobs = <<>>
    /\ localFiles = EmptyStore

SpecPool == InitPool /\ [][NextDelete]_vars

\* the requests for one object that the workers of the batch have under way
OperationsInProgress ==
    Cardinality({i \in DOMAIN jobs : jobs[i].op # "deleteFolder" /\ InProgress(jobs[i])})
    + SumOver({i \in DOMAIN jobs : jobs[i].op = "deleteFolder"},
              [i \in DOMAIN jobs |->
                  Cardinality({k \in DOMAIN jobs[i].inner : jobs[i].inner[k].pc = "run"})])

\* C20: at any moment of a bulk operation at most ten requests for one
\* object are under way, however many items or keys of folders it has.
AtMostTenInProgress == OperationsInProgress <= NumWorkers

====
